---- MODULE Spec2Model ----
(***************************************************************************)
(* Cross-chain DOT transfer orchestrator (DOTExchange component) and its   *)
(* collaborators, as a state machine.  Two versions of the component live  *)
(* in the repository: one with the routes Polkadot -> Unique and Asset Hub *)
(* -> Unique ("threeChain"), one with the routes Polkadot -> Unique and    *)
(* Unique -> Polkadot ("twoWay").  Decimal strings are sequences of        *)
(* one-character strings, BigNumber values are digit sequences, so that    *)
(* every conversion is computed digit by digit, exactly as bignumber.js    *)
(* does, with no machine-integer width involved.                           *)
(***************************************************************************)
EXTENDS Integers, Sequences, FiniteSets, TLC

VARIABLES
  variant,            \* which version of the component is running
  chain,              \* what the chains would answer to a balance query
  selectedAccount,    \* useState selectedAccount (TRUE: accountList[0] selected)
  api,                \* useState polkadotApi / assetHubApi / uniqueApi (TRUE: connected)
  initPc,             \* position of initializeAPIs
  initErrors,         \* the local list `errors` of initializeAPIs
  connectionErrors,   \* useState connectionErrors
  bal,                \* useState polkadotBalance, assetHubBalance, uniqueBalance, uniqueDotBalance
  transferAmount,     \* useState transferAmount (the amount-input field)
  transferDirection,  \* useState transferDirection
  transactionStatus,  \* useState transactionStatus
  isRefreshing,       \* useState isRefreshing
  pollTimer,          \* how many setInterval(fetchBalances, 30000) timers are active
  fetch,              \* the fetchBalances runs in flight
  failures,           \* how many connection attempts and balance queries have failed
  att,                \* the executeTransfer attempts
  fetchToasts,        \* the toast.error messages fetchBalances has raised
  queryOrder,         \* the order in which the balance queries in flight were issued
  historyAccount,     \* TransferHistory: the prop selectedAccount (TRUE: an account object)
  history,            \* TransferHistory: useState history
  isLoading,          \* TransferHistory: useState isLoading
  historyCalls,       \* TransferHistory: the fetchHistory calls, in the order they were made
  exposedBy           \* TransferHistory: which call made the last setHistory (0: none)

vars == <<variant, chain, selectedAccount, api, initPc, initErrors, connectionErrors,
          bal, transferAmount, transferDirection, transactionStatus, isRefreshing,
          pollTimer, fetch, failures, att, fetchToasts, queryOrder,
          historyAccount, history, isLoading, historyCalls, exposedBy>>

\* the state of the TransferHistory component, of the DOTExchange component
historyVars == <<historyAccount, history, isLoading, historyCalls, exposedBy>>
exchangeVars == <<variant, chain, selectedAccount, api, initPc, initErrors, connectionErrors,
                  bal, transferAmount, transferDirection, transactionStatus, isRefreshing,
                  pollTimer, fetch, failures, att, fetchToasts, queryOrder>>

----------------------------------------------------------------------------
(* Bounds of the model *)

MaxAttempts == 2
MaxFetchRuns == 1
MaxFailures == 1
MaxDuplicates == 1
MaxHistoryCalls == 3

----------------------------------------------------------------------------
(* Program constants *)

DOT_DECIMALS == 10
UNQ_DECIMALS == 18
UNIQUE_PARA_ID == 2037

Variants == {"threeChain", "twoWay"}

\* MIN_DOT_TRANSFER = 0.001 (threeChain), 0.1 (twoWay); MAX_DOT_TRANSFER = 1000
MIN_DOT_TRANSFER(v) == IF v = "threeChain" THEN <<"0", ".", "0", "0", "1">> ELSE <<"0", ".", "1">>
MAX_DOT_TRANSFER == <<"1", "0", "0", "0">>

\* The fee estimate is 10^(DOT_DECIMALS - 2) or 10^(DOT_DECIMALS - 1) minor units.
FeeExponent(v) == IF v = "threeChain" THEN DOT_DECIMALS - 2 ELSE DOT_DECIMALS - 1

\* The comparisons with the bounds are made on IEEE doubles.  parseFloat rounds
\* to the nearest double (ties to even) and is monotone, so parseFloat(s) < MIN
\* holds exactly when the decimal s lies below the midpoint between the double
\* MIN and its predecessor, and parseFloat(s) > MAX exactly when s lies above
\* the midpoint between the double MAX and its successor.  These are the exact
\* decimal expansions of those midpoints.
MinRoundingPoint(v) ==
  IF v = "threeChain"
  THEN <<"0", ".", "0", "0", "0", "9", "9", "9", "9", "9", "9", "9", "9", "9", "9", "9", "9", "9", "9", "9", "9", "1", "2", "3", "9", "6", "4", "6", "4", "4", "6", "3", "1", "7", "1", "2", "4", "1", "7", "3", "2", "1", "9", "7", "8", "1", "3", "6", "8", "9", "7", "0", "8", "7", "0", "9", "7", "1", "6", "7", "9", "6", "8", "7", "5">>
  ELSE <<"0", ".", "0", "9", "9", "9", "9", "9", "9", "9", "9", "9", "9", "9", "9", "9", "9", "9", "9", "8", "6", "1", "2", "2", "2", "1", "2", "1", "9", "2", "1", "8", "5", "5", "4", "3", "2", "4", "4", "7", "0", "4", "6", "0", "4", "1", "4", "8", "8", "6", "4", "7", "4", "6", "0", "9", "3", "7", "5">>
MaxRoundingPoint ==
  <<"1", "0", "0", "0", ".", "0", "0", "0", "0", "0", "0", "0", "0", "0", "0", "0", "0", "0", "5", "6", "8", "4", "3", "4", "1", "8", "8", "6", "0", "8", "0", "8", "0", "1", "4", "8", "6", "9", "6", "8", "9", "9", "4", "1", "4", "0", "6", "2", "5">>

----------------------------------------------------------------------------
(* Decimal strings and BigNumber arithmetic *)

DigitChars == <<"0", "1", "2", "3", "4", "5", "6", "7", "8", "9">>
IsDigitChar(c) == \E d \in 1..10 : DigitChars[d] = c
DigitVal(c) == (CHOOSE d \in 1..10 : DigitChars[d] = c) - 1

Zeros(n) == [i \in 1..n |-> 0]
Max(a, b) == IF a >= b THEN a ELSE b

RECURSIVE StripLeading(_)
StripLeading(d) ==
  IF d # <<>> /\ Head(d) = 0 THEN StripLeading(Tail(d)) ELSE d

RECURSIVE StripTrailing(_)
StripTrailing(d) ==
  IF d # <<>> /\ d[Len(d)] = 0 THEN StripTrailing(SubSeq(d, 1, Len(d) - 1)) ELSE d

IsNegative(s) == s # <<>> /\ Head(s) = "-"
Unsigned(s) == IF IsNegative(s) THEN Tail(s) ELSE s

DotPos(s) ==
  IF \E i \in 1..Len(s) : s[i] = "."
  THEN CHOOSE i \in 1..Len(s) : s[i] = "."
  ELSE Len(s) + 1

ToDigits(s) == [i \in 1..Len(s) |-> DigitVal(s[i])]
ToChars(d) == [i \in 1..Len(d) |-> DigitChars[d[i] + 1]]

\* new BigNumber(s), s an unsigned decimal string: integer digits without
\* leading zeros, fraction digits without trailing zeros.
BigNumber(s) ==
  LET p == DotPos(s)
  IN  [ip |-> StripLeading(ToDigits(SubSeq(s, 1, p - 1))),
       fp |-> StripTrailing(ToDigits(SubSeq(s, p + 1, Len(s))))]

\* new BigNumber(10).pow(k)
Pow10(k) == [ip |-> <<1>> \o Zeros(k), fp |-> <<>>]

\* x.multipliedBy(new BigNumber(10).pow(k)): the product is exact, the decimal
\* point moves k places to the right.
TimesPow10(x, k) ==
  LET f == x.fp \o Zeros(Max(0, k - Len(x.fp)))
  IN  [ip |-> StripLeading(x.ip \o SubSeq(f, 1, k)),
       fp |-> StripTrailing(SubSeq(f, k + 1, Len(f)))]

\* the digits of x with il integer and fl fraction places
Align(x, il, fl) ==
  Zeros(il - Len(x.ip)) \o x.ip \o x.fp \o Zeros(fl - Len(x.fp))

RECURSIVE LexLt(_, _, _)
LexLt(a, b, i) ==
  /\ i <= Len(a)
  /\ \/ a[i] < b[i]
     \/ a[i] = b[i] /\ LexLt(a, b, i + 1)

\* x.lt(y)
Lt(x, y) ==
  LET il == Max(Len(x.ip), Len(y.ip))
      fl == Max(Len(x.fp), Len(y.fp))
  IN  LexLt(Align(x, il, fl), Align(y, il, fl), 1)

RECURSIVE AddFrom(_, _, _, _)
AddFrom(a, b, i, carry) ==
  IF i = 0
  THEN IF carry = 1 THEN <<1>> ELSE <<>>
  ELSE LET s == a[i] + b[i] + carry
       IN  AddFrom(a, b, i - 1, s \div 10) \o <<s % 10>>

\* x.plus(y)
Plus(x, y) ==
  LET il == Max(Len(x.ip), Len(y.ip))
      fl == Max(Len(x.fp), Len(y.fp))
      s  == AddFrom(Align(x, il, fl), Align(y, il, fl), il + fl, 0)
  IN  [ip |-> StripLeading(SubSeq(s, 1, Len(s) - fl)),
       fp |-> StripTrailing(SubSeq(s, Len(s) - fl + 1, Len(s)))]

\* x.toString() (every value that reaches it lies below 10^21, where
\* bignumber.js uses plain notation)
BnToString(x) ==
  (IF x.ip = <<>> THEN <<"0">> ELSE ToChars(x.ip))
    \o (IF x.fp = <<>> THEN <<>> ELSE <<".">> \o ToChars(x.fp))

\* parseFloat(s) < MIN_DOT_TRANSFER and parseFloat(s) > MAX_DOT_TRANSFER, as
\* comparisons of doubles
ParseFloatBelowMin(s, v) ==
  IsNegative(s) \/ Lt(BigNumber(s), BigNumber(MinRoundingPoint(v)))
ParseFloatAboveMax(s) ==
  ~IsNegative(s) /\ Lt(BigNumber(MaxRoundingPoint), BigNumber(s))
----------------------------------------------------------------------------
(* Static configuration *)

Chains == {"polkadot", "assetHub", "unique"}
BalanceKeys == Chains \cup {"uniqueDot"}

\* the chains initializeAPIs connects to, in its order
ConnectOrder(v) ==
  IF v = "threeChain" THEN <<"polkadot", "assetHub", "unique">>
  ELSE <<"polkadot", "unique">>

Directions(v) ==
  IF v = "threeChain" THEN {"fromPolkadot", "fromAssetHub"}
  ELSE {"toUnique", "toPolkadot"}
InitialDirection(v) == IF v = "threeChain" THEN "fromPolkadot" ELSE "toUnique"

\* the chain a direction sends from, and the balance snapshot it is checked against
SourceChain(d) ==
  CASE d \in {"fromPolkadot", "toUnique"} -> "polkadot"
    [] d = "fromAssetHub" -> "assetHub"
    [] d = "toPolkadot" -> "unique"
SourceBalanceKey(d) == IF d = "toPolkadot" THEN "uniqueDot" ELSE SourceChain(d)

\* u8aToHex(decodeAddress(selectedAccount.address))
Address == "accountList[0].address"
AccountIdHex(address) == <<"0x", address>>

----------------------------------------------------------------------------
(* Inputs of the model: what the user may type, what the chains may hold *)

AmountInputs ==
  { <<"1">>,
    <<"0", ".", "0", "0", "0", "5">>,
    <<"2", "0", "0", "0">>,
    <<"1", ".", "0", "0", "0", "0", "0", "0", "0", "0", "0", "0", "1">>,
    <<"1", "0", "0", "0", ".", "0", "0", "0", "0", "0", "0", "0", "0", "0", "0", "0", "0", "0", "1">> }

Holding(free, reserved) == [free |-> free, reserved |-> reserved]

\* threeChain: the Polkadot and Asset Hub balances are exactly, or one minor
\* unit below, 1 DOT plus the fee estimate 0.01 DOT.  twoWay: the Polkadot
\* balance is exactly, or one minor unit below, 1 DOT plus the fee estimate
\* 0.1 DOT, the DOT held on Unique exactly, or one minor unit below, 1 DOT.
ChainStates(v) ==
  IF v = "threeChain"
  THEN { [polkadot |-> Holding(<<"1", "0", "1", "0", "0", "0", "0", "0", "0", "0", "0">>, <<"0">>),
          assetHub |-> Holding(<<"1", "0", "0", "9", "9", "9", "9", "9", "9", "9", "9">>, <<"5">>),
          unique   |-> Holding(<<"7">>, <<"0">>),
          uniqueDot |-> <<"0">>],
         [polkadot |-> Holding(<<"1", "0", "0", "9", "9", "9", "9", "9", "9", "9", "9">>, <<"0">>),
          assetHub |-> Holding(<<"1", "0", "1", "0", "0", "0", "0", "0", "0", "0", "0">>, <<"0">>),
          unique   |-> Holding(<<"7">>, <<"0">>),
          uniqueDot |-> <<"1", "0", "0", "0", "0", "0", "0", "0", "0", "0", "0">>],
         [polkadot |-> Holding(<<"9", "9", "9", "9", "0", "0", "0", "0", "0", "0", "0", "0", "0", "0">>, <<"0">>),
          assetHub |-> Holding(<<"9", "9", "9", "9", "0", "0", "0", "0", "0", "0", "0", "0", "0", "0">>, <<"0">>),
          unique   |-> Holding(<<"0">>, <<"0">>),
          uniqueDot |-> <<"1", "0", "0", "0", "0", "0", "0", "0", "0", "0", "0">>] }
  ELSE { [polkadot |-> Holding(<<"1", "1", "0", "0", "0", "0", "0", "0", "0", "0", "0">>, <<"0">>),
          assetHub |-> Holding(<<"0">>, <<"0">>),
          unique   |-> Holding(<<"7">>, <<"0">>),
          uniqueDot |-> <<"1", "0", "0", "0", "0", "0", "0", "0", "0", "0", "0">>],
         [polkadot |-> Holding(<<"1", "0", "9", "9", "9", "9", "9", "9", "9", "9", "9">>, <<"5">>),
          assetHub |-> Holding(<<"0">>, <<"0">>),
          unique   |-> Holding(<<"7">>, <<"0">>),
          uniqueDot |-> <<"9", "9", "9", "9", "9", "9", "9", "9", "9", "9">>],
         [polkadot |-> Holding(<<"9", "9", "9", "9", "0", "0", "0", "0", "0", "0", "0", "0", "0", "0">>, <<"0">>),
          assetHub |-> Holding(<<"0">>, <<"0">>),
          unique   |-> Holding(<<"0">>, <<"0">>),
          uniqueDot |-> <<"9", "9", "9", "9", "0", "0", "0", "0", "0", "0", "0", "0", "0", "0">>] }

----------------------------------------------------------------------------
(* State *)

NoBalance == [present |-> FALSE, free |-> <<>>, reserved |-> <<>>]
Snapshot(free, reserved) == [present |-> TRUE, free |-> free, reserved |-> reserved]

Status(s, m) == [status |-> s, message |-> m]

NoApis == [c \in Chains |-> FALSE]
IdleRun == [pc |-> "idle", apis |-> NoApis, manual |-> FALSE]

\* no query in flight
NoOrder(runs) == [order |-> <<>>, overtaken |-> [r \in 1..runs |-> FALSE]]

\* an attempt: the position of one executeTransfer call that reached its first
\* await, the values of its closure that are still to be read, what it handed
\* to signAndSend, and what its watch callback has done
UnusedAttempt ==
  [pc |-> "unused", amount |-> <<>>, dir |-> "none", srcBal |-> NoBalance,
   apis |-> NoApis, payload |-> <<>>, seen |-> {}, unsubCalls |-> 0,
   scheduled |-> 0, timer3 |-> 0, timer5 |-> 0, dups |-> 0]

\* a fetchHistory call that was not made yet
NoCall == [pc |-> "unused", body |-> <<>>, ended |-> "none", exposed |-> <<>>, result |-> "none"]

\* TransferHistory after its mount without an account: the effect called
\* fetchHistory, which returned at once
HistoryMounted ==
  /\ historyAccount = FALSE
  /\ history = <<>>
  /\ isLoading = TRUE
  /\ historyCalls = [n \in 1..MaxHistoryCalls |-> NoCall]
  /\ exposedBy = 0

Constructed(runs) ==
  /\ variant \in Variants
  /\ chain \in ChainStates(variant)
  /\ selectedAccount = FALSE
  /\ api = NoApis
  /\ initPc = 1
  /\ initErrors = {}
  /\ connectionErrors = {}
  /\ bal = [k \in BalanceKeys |-> NoBalance]
  /\ transferAmount = <<>>
  /\ transferDirection = InitialDirection(variant)
  /\ transactionStatus = Status("idle", "none")
  /\ isRefreshing = FALSE
  /\ pollTimer = 0
  /\ fetch = [r \in 1..runs |-> IdleRun]
  /\ failures = 0
  /\ att = [a \in 1..MaxAttempts |-> UnusedAttempt]
  /\ fetchToasts = {}
  /\ queryOrder = NoOrder(runs)
  /\ HistoryMounted

Init == Constructed(MaxFetchRuns)

----------------------------------------------------------------------------
(* fetchBalances *)

configVars == <<variant, chain>>
connVars == <<api, initPc, initErrors, connectionErrors>>
formVars == <<transferAmount, transferDirection>>

\* the balance queries of one fetchBalances run, in the order they are awaited
Stages(v) ==
  IF v = "threeChain" THEN <<"polkadot", "assetHub", "unique", "dot">>
  ELSE <<"polkadot", "unique">>

StageIndex(v, st) == CHOOSE i \in 1..Len(Stages(v)) : Stages(v)[i] = st

\* the first query at or after position i that the run awaits: a chain whose
\* handle is null is skipped, the foreign-asset query through the SDK always runs
RECURSIVE StageFrom(_, _, _)
StageFrom(v, apis, i) ==
  IF i > Len(Stages(v)) THEN "idle"
  ELSE IF Stages(v)[i] = "dot" \/ apis[Stages(v)[i]] THEN Stages(v)[i]
  ELSE StageFrom(v, apis, i + 1)

\* a run that gives up at the first query that throws
StageAfterGivingUp(v, apis, st, ok) ==
  IF ~ok THEN "idle"
  ELSE IF v = "twoWay" /\ st = "unique" THEN "dot"
  ELSE IF st = "dot" THEN "idle"
  ELSE StageFrom(v, apis, StageIndex(v, st) + 1)

\* where the run goes after the query st answered (ok) or threw (~ok); in the
\* twoWay version the foreign-asset query is nested in the Unique query's try
StageAfter(v, apis, st, ok) ==
  IF v = "twoWay" /\ st = "unique" THEN (IF ok THEN "dot" ELSE "idle")
  ELSE IF st = "dot" THEN "idle"
  ELSE StageFrom(v, apis, StageIndex(v, st) + 1)

FreeRuns(f) == {r \in DOMAIN f : f[r].pc = "idle"}
CanFetch == FreeRuns(fetch) # {}

\* fetchBalances() called with the handles `apis` of the closure: the run is
\* in flight at its first awaited query (none: it returns at once)
StartFetch(f, apis, manual) ==
  LET r == CHOOSE x \in FreeRuns(f) : \A y \in FreeRuns(f) : x <= y
      st == StageFrom(variant, apis, 1)
  IN  IF st = "idle" THEN f
      ELSE [f EXCEPT ![r] = [pc |-> st, apis |-> apis, manual |-> manual]]

\* The order of issue of the queries in flight after a step from the runs f
\* to the runs f2 in which run `storedBy` (0: none) stored the answer of its
\* query.  `order` lists the runs by the time they issued the query they are
\* awaiting; `overtaken[r]` says that the snapshot now stored for the balance
\* run r is asking for came from a query issued after r's.  A run that moves
\* to its next query issues it now, after every query in flight.
OrderAfter(q, f, f2, storedBy) ==
  LET Pos(r) == CHOOSE i \in 1..Len(q.order) : q.order[i] = r
      Waits(r) == f2[r].pc # "idle" /\ f2[r].pc = f[r].pc
      issued == {r \in DOMAIN f2 : f2[r].pc # "idle" /\ f2[r].pc # f[r].pc}
      kept == SelectSeq(q.order, Waits)
  IN  [order |-> IF issued = {} THEN kept
                 ELSE kept \o <<CHOOSE r \in issued : TRUE>>,
       overtaken |->
         [r \in DOMAIN f2 |->
            /\ Waits(r)
            /\ IF storedBy # 0 /\ r # storedBy /\ f[r].pc = f[storedBy].pc
               THEN Pos(r) < Pos(storedBy)
               ELSE q.overtaken[r]]]

\* a foreign-asset query whose failure leaves no balance at all
DotBalanceOrNone(ok) ==
  IF ok THEN Snapshot(chain.uniqueDot, <<>>) ELSE NoBalance

\* getDotBalanceOnUnique: the raw balance, "0" when the query fails
DotBalance(ok) ==
  IF ok THEN Snapshot(chain.uniqueDot, <<>>) ELSE Snapshot(<<"0">>, <<>>)

\* the snapshot store after the query st of a run answered or threw
BalancesAfter(b, st, ok) ==
  IF st = "dot" THEN [b EXCEPT !["uniqueDot"] = DotBalance(ok)]
  ELSE IF ok THEN [b EXCEPT ![st] = Snapshot(chain[st].free, chain[st].reserved)]
  ELSE b

\* the catch of a chain's query: toast.error("Failed to fetch <chain> balance");
\* a failure of the foreign-asset query is logged to the console only
FetchFailed(st) == <<"Failed to fetch balance", st>>
ToastsAfter(ts, st, ok) ==
  IF ~ok /\ st # "dot" THEN ts \cup {FetchFailed(st)} ELSE ts

\* a collaborator may fail while the failure budget lasts
Outcome(ok) ==
  /\ ~ok => failures < MaxFailures
  /\ failures' = IF ok THEN failures ELSE failures + 1

FetchStep(r, ok) ==
  /\ fetch[r].pc # "idle"
  /\ Outcome(ok)
  /\ LET st == fetch[r].pc
         nxt == StageAfter(variant, fetch[r].apis, st, ok)
     IN  /\ bal' = BalancesAfter(bal, st, ok)
         /\ fetchToasts' = ToastsAfter(fetchToasts, st, ok)
         /\ fetch' = [fetch EXCEPT ![r] = IF nxt = "idle" THEN IdleRun
                                          ELSE [@ EXCEPT !.pc = nxt]]
         /\ isRefreshing' = IF nxt = "idle" /\ fetch[r].manual THEN FALSE
                            ELSE isRefreshing
  /\ queryOrder' = OrderAfter(queryOrder, fetch, fetch',
                              IF ok \/ fetch[r].pc = "dot" THEN r ELSE 0)
  /\ UNCHANGED <<historyVars, configVars, connVars, formVars, selectedAccount,
                 transactionStatus, pollTimer, att>>

\* the 30-second interval fires
PollTick ==
  /\ pollTimer > 0
  /\ CanFetch
  /\ fetch' = StartFetch(fetch, api, FALSE)
  /\ fetch' # fetch
  /\ queryOrder' = OrderAfter(queryOrder, fetch, fetch', 0)
  /\ UNCHANGED <<historyVars, fetchToasts, configVars, connVars, formVars, selectedAccount, bal,
                 transactionStatus, isRefreshing, pollTimer, failures, att>>

\* refreshBalances (threeChain version only), behind its disabled={isRefreshing}
RefreshBalances ==
  /\ variant = "threeChain"
  /\ selectedAccount
  /\ ~isRefreshing
  /\ CanFetch
  /\ isRefreshing' = TRUE
  /\ fetch' = StartFetch(fetch, api, TRUE)
  /\ queryOrder' = OrderAfter(queryOrder, fetch, fetch', 0)
  /\ UNCHANGED <<historyVars, fetchToasts, configVars, connVars, formVars, selectedAccount, bal,
                 transactionStatus, pollTimer, failures, att>>

----------------------------------------------------------------------------
(* connectWallet, initializeAPIs and the effect that (re)starts polling *)

\* an effect that returns no cleanup
PollEffectWithoutCleanup(timers, hadAccount, hasAccount) ==
  timers + (IF hasAccount THEN 1 ELSE 0)

\* The effect on [selectedAccount, fetchBalances] runs again: React first calls
\* the cleanup the previous run returned, which clears the interval that run
\* set; the previous run, made with the account of the state before, returned
\* one exactly when an account was selected.  Then the body sets an interval
\* when an account is selected.
PollEffect(timers, hadAccount, hasAccount) ==
  (IF hadAccount THEN timers - 1 ELSE timers) + (IF hasAccount THEN 1 ELSE 0)

\* connectWallet succeeds: the account is selected, and the effect on
\* [selectedAccount, fetchBalances] calls fetchBalances and starts the interval
ConnectWallet ==
  /\ ~selectedAccount
  /\ selectedAccount' = TRUE
  /\ pollTimer' = PollEffect(pollTimer, selectedAccount, TRUE)
  /\ fetch' = StartFetch(fetch, api, FALSE)
  /\ queryOrder' = OrderAfter(queryOrder, fetch, fetch', 0)
  /\ UNCHANGED <<historyVars, fetchToasts, configVars, connVars, formVars, bal, transactionStatus,
                 isRefreshing, failures, att>>

\* a list of errors that keeps the first failure only
ErrorsAfterFirstOnly(errors, c, ok) ==
  IF ok \/ errors # {} THEN errors ELSE errors \cup {c}

\* the local list `errors` after the try/catch around the connection to c:
\* the catch pushes the chain's message
ErrorsAfter(errors, c, ok) ==
  IF ok THEN errors ELSE errors \cup {c}

\* a connection attempt may fail whatever failed before it: initializeAPIs
\* makes one attempt per chain, so these failures need no budget
ConnectOutcome(ok) ==
  failures' = IF ok THEN failures ELSE failures + 1

\* one ApiPromise.create of initializeAPIs resolves (ok) or rejects; after the
\* last one the collected errors are published.  A new handle re-creates
\* fetchBalances, so the polling effect runs again when an account is selected.
InitStep(ok) ==
  /\ initPc <= Len(ConnectOrder(variant))
  /\ ConnectOutcome(ok)
  /\ LET c == ConnectOrder(variant)[initPc]
         errs == ErrorsAfter(initErrors, c, ok)
         last == initPc = Len(ConnectOrder(variant))
     IN  /\ api' = IF ok THEN [api EXCEPT ![c] = TRUE] ELSE api
         /\ initErrors' = errs
         /\ connectionErrors' = IF last THEN errs ELSE connectionErrors
         /\ initPc' = initPc + 1
         /\ IF ok /\ selectedAccount
            THEN CanFetch /\ fetch' = StartFetch(fetch, api', FALSE)
            ELSE fetch' = fetch
         /\ pollTimer' = IF ok THEN PollEffect(pollTimer, selectedAccount, selectedAccount)
                         ELSE pollTimer
  /\ queryOrder' = OrderAfter(queryOrder, fetch, fetch', 0)
  /\ UNCHANGED <<historyVars, fetchToasts, configVars, formVars, selectedAccount, bal, transactionStatus,
                 isRefreshing, att>>

----------------------------------------------------------------------------
(* The transfer form *)

SetTransferAmount(s) ==
  /\ selectedAccount
  /\ s # transferAmount
  /\ transferAmount' = s
  /\ UNCHANGED <<historyVars, fetchToasts, queryOrder, configVars, connVars, selectedAccount, bal, transferDirection,
                 transactionStatus, isRefreshing, pollTimer, fetch, failures, att>>

SetTransferDirection(d) ==
  /\ selectedAccount
  /\ d # transferDirection
  /\ transferDirection' = d
  /\ UNCHANGED <<historyVars, fetchToasts, queryOrder, configVars, connVars, selectedAccount, bal, transferAmount,
                 transactionStatus, isRefreshing, pollTimer, fetch, failures, att>>

----------------------------------------------------------------------------
(* executeTransfer: validation and the payload *)

\* the two bounds checks, in their order: the Error thrown, or "none"
BoundsError(s, v) ==
  IF ParseFloatBelowMin(s, v) THEN "MinAmount"
  ELSE IF ParseFloatAboveMax(s) THEN "MaxAmount"
  ELSE "none"

\* amount = new BigNumber(transferAmount).multipliedBy(new BigNumber(10).pow(DOT_DECIMALS))
AmountOf(s) == TimesPow10(BigNumber(s), DOT_DECIMALS)

FeeEstimate(v) == Pow10(FeeExponent(v))

\* a balance check that also turns away a balance equal to what is needed
BalanceErrorAtBoundary(v, d, srcBal, amount) ==
  IF d = "toPolkadot"
  THEN IF ~srcBal.present \/ ~Lt(amount, BigNumber(srcBal.free))
       THEN "InsufficientDotOnUnique" ELSE "none"
  ELSE IF srcBal.present /\ ~Lt(Plus(amount, FeeEstimate(v)), BigNumber(srcBal.free))
       THEN "InsufficientBalance" ELSE "none"

\* the balance check of a direction on the snapshot the closure holds: routes
\* out of Polkadot and Asset Hub check only a snapshot that is present, and add
\* the fee estimate; the route out of Unique requires the snapshot, without fee
BalanceError(v, d, srcBal, amount) ==
  IF d = "toPolkadot"
  THEN IF ~srcBal.present \/ Lt(BigNumber(srcBal.free), amount)
       THEN "InsufficientDotOnUnique" ELSE "none"
  ELSE IF srcBal.present /\ Lt(BigNumber(srcBal.free), Plus(amount, FeeEstimate(v)))
       THEN "InsufficientBalance" ELSE "none"

ApiError(d, apis) == IF apis[SourceChain(d)] THEN "none" ELSE "NotConnected"

\* what runs between the injector and signAndSend, in the order of the code
ValidationError(v, d, srcBal, apis, amount) ==
  IF d = "toPolkadot"
  THEN IF ApiError(d, apis) # "none" THEN ApiError(d, apis)
       ELSE BalanceError(v, d, srcBal, amount)
  ELSE IF BalanceError(v, d, srcBal, amount) # "none"
       THEN BalanceError(v, d, srcBal, amount)
       ELSE ApiError(d, apis)

Here == <<>>
Parachain(id) == <<[kind |-> "Parachain", para |-> id]>>
AccountId32(hex) == <<[kind |-> "AccountId32", id |-> hex]>>

\* a destination addressed from the relay chain on every route
DestinationWithoutParent(d) ==
  IF d = "toPolkadot" THEN [parents |-> 0, interior |-> Here]
  ELSE [parents |-> 0, interior |-> Parachain(UNIQUE_PARA_ID)]

\* a destination that climbs one parent on every route
DestinationThroughParent(d) ==
  IF d = "toPolkadot" THEN [parents |-> 1, interior |-> Here]
  ELSE [parents |-> 1, interior |-> Parachain(UNIQUE_PARA_ID)]

Destination(d) ==
  CASE d \in {"fromPolkadot", "toUnique"} ->
         [parents |-> 0, interior |-> Parachain(UNIQUE_PARA_ID)]
    [] d = "fromAssetHub" ->
         [parents |-> 1, interior |-> Parachain(UNIQUE_PARA_ID)]
    [] d = "toPolkadot" ->
         [parents |-> 1, interior |-> Here]

\* a beneficiary addressed through the parent
BeneficiaryThroughParent(address) ==
  [parents |-> 1, interior |-> AccountId32(AccountIdHex(address))]

Beneficiary(address) == [parents |-> 0, interior |-> AccountId32(AccountIdHex(address))]

\* an asset located as seen from the relay chain on every route
AssetAtRelay(d, amount) ==
  [parents |-> 0, interior |-> Here, fungible |-> BnToString(amount)]

Asset(d, amount) ==
  [parents |-> IF d \in {"fromPolkadot", "toUnique"} THEN 0 ELSE 1,
   interior |-> Here,
   fungible |-> BnToString(amount)]

Extrinsic(d) ==
  IF d = "fromAssetHub" THEN "polkadotXcm.reserveTransferAssets"
  ELSE "xcmPallet.transferAssets"

\* a payload whose fee asset and weight limit follow the route
BuildPayloadFeeByRoute(d, amount, address) ==
  [extrinsic |-> Extrinsic(d),
   destination |-> Destination(d),
   beneficiary |-> Beneficiary(address),
   assets |-> <<Asset(d, amount)>>,
   feeAssetItem |-> IF d = "fromAssetHub" THEN 1 ELSE 0,
   weightLimit |-> IF d = "toPolkadot" THEN "Limited" ELSE "Unlimited"]

\* the arguments handed to the transfer extrinsic
BuildPayload(d, amount, address) ==
  [extrinsic |-> Extrinsic(d),
   destination |-> Destination(d),
   beneficiary |-> Beneficiary(address),
   assets |-> <<Asset(d, amount)>>,
   feeAssetItem |-> 0,
   weightLimit |-> "Unlimited"]

FreeAttempts == {a \in 1..MaxAttempts : att[a].pc = "unused"}
NextAttempt == CHOOSE a \in FreeAttempts : \A b \in FreeAttempts : a <= b

\* executeTransfer is modelled as the handler it is: what it does whenever it
\* is called.  The disabled condition of the control that calls it belongs to
\* the render (isAmountValid, isBalanceSufficient).
\* executeTransfer up to its first await: the guard, the bounds checks (a throw
\* lands in the catch, which sets the error status and ends the call), the call
\* of web3FromAddress
ExecuteTransfer ==
  /\ selectedAccount
  /\ transferAmount # <<>>
  /\ LET err == BoundsError(transferAmount, variant)
     IN  IF err # "none"
         THEN /\ transactionStatus' = Status("error", err)
              /\ att' = att
         ELSE /\ FreeAttempts # {}
              /\ transactionStatus' = Status("pending", "Validating")
              /\ att' = [att EXCEPT ![NextAttempt] =
                   [UnusedAttempt EXCEPT !.pc = "injector",
                                         !.amount = transferAmount,
                                         !.dir = transferDirection,
                                         !.srcBal = bal[SourceBalanceKey(transferDirection)],
                                         !.apis = api]]
  /\ UNCHANGED <<historyVars, fetchToasts, queryOrder, configVars, connVars, formVars, selectedAccount, bal,
                 isRefreshing, pollTimer, fetch, failures>>

\* web3FromAddress answers.  Rejected: the catch sets the error status.
\* Resolved: the balance and connection checks run; a throw ends the call in
\* the catch, otherwise the payload is built and signAndSend is called.  A call
\* that has ended leaves nothing behind but the status it set.
InjectorAnswers(a, ok) ==
  /\ att[a].pc = "injector"
  /\ LET t == att[a]
         amount == AmountOf(t.amount)
         err == IF ok THEN ValidationError(variant, t.dir, t.srcBal, t.apis, amount)
                ELSE "SignerError"
     IN  IF err # "none"
         THEN /\ att' = [att EXCEPT ![a] = UnusedAttempt]
              /\ transactionStatus' = Status("error", err)
         ELSE /\ att' = [att EXCEPT ![a] =
                           [t EXCEPT !.pc = "signing",
                                     !.payload = <<BuildPayload(t.dir, amount, Address)>>]]
              /\ transactionStatus' = Status("pending", "Signing")
  /\ UNCHANGED <<historyVars, fetchToasts, queryOrder, configVars, connVars, formVars, selectedAccount, bal,
                 isRefreshing, pollTimer, fetch, failures>>

\* a signAndSend whose refusal leaves the attempt subscribed to a watch stream
SignAndSendKeepingWatch(a, ok) ==
  /\ att[a].pc = "signing"
  /\ att' = [att EXCEPT ![a] = [UnusedAttempt EXCEPT !.pc = "watching",
                                                     !.apis = att[a].apis]]
  /\ IF ok THEN UNCHANGED transactionStatus
     ELSE transactionStatus' = Status("error", "SignerError")
  /\ UNCHANGED <<historyVars, fetchToasts, queryOrder, configVars, connVars, formVars, selectedAccount, bal,
                 isRefreshing, pollTimer, fetch, failures>>

\* signAndSend answers.  Rejected (the signer refused): the catch sets the
\* error status.  Resolved: the call ends holding the function unsub of its
\* watch subscription; of its closure only the callback's fetchBalances, with
\* the handles it captured, is read from now on.
SignAndSendAnswers(a, ok) ==
  /\ att[a].pc = "signing"
  /\ IF ok
     THEN /\ att' = [att EXCEPT ![a] = [UnusedAttempt EXCEPT !.pc = "watching",
                                                            !.apis = att[a].apis]]
          /\ UNCHANGED transactionStatus
     ELSE /\ att' = [att EXCEPT ![a] = UnusedAttempt]
          /\ transactionStatus' = Status("error", "SignerError")
  /\ UNCHANGED <<historyVars, fetchToasts, queryOrder, configVars, connVars, formVars, selectedAccount, bal,
                 isRefreshing, pollTimer, fetch, failures>>

----------------------------------------------------------------------------
(* The signAndSend callback and the timers it sets *)

\* what the callback acts on: InBlock with or without system.ExtrinsicSuccess
\* among the events, or an error result (on any other status it does nothing)
TerminalEvents == {"inBlockOk", "inBlockFail", "error"}

\* a callback that takes every block inclusion for a success
StatusOnInclusion(ev) ==
  IF ev = "error" THEN Status("error", "Failed") ELSE Status("success", "Success")

\* a callback that passes over an inclusion without ExtrinsicSuccess
StatusOnSuccessOnly(ev) ==
  CASE ev = "inBlockOk" -> Status("success", "Success")
    [] ev = "inBlockFail" -> Status("pending", "Signing")
    [] ev = "error" -> Status("error", "Failed")

\* the status the callback sets for a result
StatusOn(ev) ==
  CASE ev = "inBlockOk" -> Status("success", "Success")
    [] ev = "inBlockFail" -> Status("error", "FailedInBlock")
    [] ev = "error" -> Status("error", "Failed")

\* a callback that releases the subscription in the isInBlock branch only
UnsubscribesInBlock(ev) == ev \in {"inBlockOk", "inBlockFail"}

\* the results on which the callback calls unsub()
Unsubscribes(ev) == ev \in {"inBlockOk", "inBlockFail", "error"}

\* the results on which the callback sets the 3000 ms timer (the isInBlock branch)
SetsRefreshTimer(ev) == ev \in {"inBlockOk", "inBlockFail"}

\* a callback that refreshes and clears the form at once, without the 3000 ms timer
CallbackRefreshingAtOnce(a, ev) ==
  /\ att' = [att EXCEPT ![a] =
       [@ EXCEPT !.seen = @ \cup {ev},
                 !.unsubCalls = IF Unsubscribes(ev) THEN @ + 1 ELSE @,
                 !.scheduled = IF SetsRefreshTimer(ev) THEN @ + 1 ELSE @,
                 !.timer5 = IF SetsRefreshTimer(ev) THEN @ + 1 ELSE @,
                 !.dups = IF att[a].unsubCalls > 0 THEN @ + 1 ELSE @]]
  /\ transactionStatus' = StatusOn(ev)
  /\ fetch' = IF SetsRefreshTimer(ev) /\ CanFetch
              THEN StartFetch(fetch, att[a].apis, FALSE) ELSE fetch
  /\ transferAmount' = IF SetsRefreshTimer(ev) THEN <<>> ELSE transferAmount
  /\ queryOrder' = OrderAfter(queryOrder, fetch, fetch', 0)
  /\ UNCHANGED <<historyVars, fetchToasts, configVars, connVars, selectedAccount, bal, transferDirection,
                 isRefreshing, pollTimer, failures>>

\* one invocation of the callback of attempt a
Callback(a, ev) ==
  /\ att' = [att EXCEPT ![a] =
       [@ EXCEPT !.seen = @ \cup {ev},
                 !.unsubCalls = IF Unsubscribes(ev) THEN @ + 1 ELSE @,
                 !.scheduled = IF SetsRefreshTimer(ev) THEN @ + 1 ELSE @,
                 !.timer3 = IF SetsRefreshTimer(ev) THEN @ + 1 ELSE @,
                 !.dups = IF att[a].unsubCalls > 0 THEN @ + 1 ELSE @]]
  /\ transactionStatus' = StatusOn(ev)
  /\ UNCHANGED <<historyVars, fetchToasts, queryOrder, configVars, connVars, formVars, selectedAccount, bal,
                 isRefreshing, pollTimer, fetch, failures>>

\* the stream delivers a result while the subscription is held
WatchEvent(a, ev) ==
  /\ att[a].pc = "watching"
  /\ att[a].unsubCalls = 0
  /\ Callback(a, ev)

\* a stream that repeats a terminal result after the attempt handled one
DuplicateEvent(a, ev) ==
  /\ att[a].pc = "watching"
  /\ att[a].unsubCalls > 0
  /\ att[a].dups < MaxDuplicates
  /\ Callback(a, ev)

\* the 3000 ms timer of attempt a fires: fetchBalances() of the attempt's
\* closure, setTransferAmount(""), and the 5000 ms timer is set
RefreshTimerFires(a) ==
  /\ att[a].timer3 > 0
  /\ CanFetch
  /\ fetch' = StartFetch(fetch, att[a].apis, FALSE)
  /\ transferAmount' = <<>>
  /\ att' = [att EXCEPT ![a].timer3 = @ - 1, ![a].timer5 = @ + 1]
  /\ queryOrder' = OrderAfter(queryOrder, fetch, fetch', 0)
  /\ UNCHANGED <<historyVars, fetchToasts, configVars, connVars, selectedAccount, bal, transferDirection,
                 transactionStatus, isRefreshing, pollTimer, failures>>

\* the 5000 ms timer of attempt a fires: setTransactionStatus({ status: "idle" })
ResetTimerFires(a) ==
  /\ att[a].timer5 > 0
  /\ transactionStatus' = Status("idle", "none")
  /\ att' = [att EXCEPT ![a].timer5 = @ - 1]
  /\ UNCHANGED <<historyVars, fetchToasts, queryOrder, configVars, connVars, formVars, selectedAccount, bal,
                 isRefreshing, pollTimer, fetch, failures>>

----------------------------------------------------------------------------
(* TransferHistory: the labels and amounts it renders *)

Min(a, b) == IF a <= b THEN a ELSE b

\* `${n}` for a non-negative integer n
RECURSIVE NumberChars(_)
NumberChars(n) ==
  IF n < 10 THEN <<DigitChars[n + 1]>>
  ELSE NumberChars(n \div 10) \o <<DigitChars[(n % 10) + 1]>>

\* a lookup that knows the three chains only
ChainLabelKnownOnly(paraId) ==
  CASE paraId = 0 -> <<"Polkadot Relay">>
    [] paraId = 1000 -> <<"Asset Hub">>
    [] paraId = 2037 -> <<"Unique Network">>
    [] OTHER -> <<"Unknown">>

\* the switch on a para id that both label functions make
ChainLabel(paraId) ==
  CASE paraId = 0 -> <<"Polkadot Relay">>
    [] paraId = 1000 -> <<"Asset Hub">>
    [] paraId = 2037 -> <<"Unique Network">>
    [] OTHER -> <<"Parachain ">> \o NumberChars(paraId)

getDestinationChain(destParaId) == ChainLabel(destParaId)

\* from_para_id when the record has one, else from_chain with the two
\* spellings of polkadot mapped and every other text returned as it is
getSourceChain(transfer) ==
  IF transfer.has_from_para_id THEN ChainLabel(transfer.from_para_id)
  ELSE IF transfer.from_chain \in {"polkadot", "Polkadot"} THEN <<"Polkadot Relay">>
  ELSE <<transfer.from_chain>>

\* a format that rounds the fifth digit of the fraction half up
formatAmountRounded(amount, decimals) ==
  LET d == StripLeading(ToDigits(amount))
      padded == Zeros(Max(0, decimals - Len(d))) \o d
      il == Len(padded) - decimals
      n == Min(4, decimals)
      kept == [ip |-> StripLeading(SubSeq(padded, 1, il + n)), fp |-> <<>>]
      rounded == IF decimals > 4 /\ padded[il + 5] >= 5
                 THEN Plus(kept, [ip |-> <<1>>, fp |-> <<>>]) ELSE kept
      r == Zeros(Max(0, n + 1 - Len(rounded.ip))) \o rounded.ip
  IN  ToChars(SubSeq(r, 1, Len(r) - n)) \o <<".">>
        \o ToChars(SubSeq(r, Len(r) - n + 1, Len(r)))

\* a format that keeps one more digit of the fraction
formatAmountFiveDigits(amount, decimals) ==
  LET d == StripLeading(ToDigits(amount))
      padded == Zeros(Max(0, decimals - Len(d))) \o d
      il == Len(padded) - decimals
      rest == IF decimals = 0 THEN <<0>> ELSE SubSeq(padded, il + 1, Len(padded))
  IN  (IF il = 0 THEN <<"0">> ELSE ToChars(SubSeq(padded, 1, il)))
        \o <<".">> \o ToChars(SubSeq(rest, 1, Min(5, Len(rest))))

\* formatAmount: BigInt(amount) / 10^decimals, a dot, and the first 4 digits of
\* the remainder padded with zeros to `decimals` digits
formatAmount(amount, decimals) ==
  LET d == StripLeading(ToDigits(amount))
      padded == Zeros(Max(0, decimals - Len(d))) \o d
      il == Len(padded) - decimals
      integerPart == IF il = 0 THEN <<"0">> ELSE ToChars(SubSeq(padded, 1, il))
      rest == IF decimals = 0 THEN <<0>> ELSE SubSeq(padded, il + 1, Len(padded))
      fractionalPart == ToChars(SubSeq(rest, 1, Min(4, Len(rest))))
  IN  integerPart \o <<".">> \o fractionalPart

\* one row of the list: amount, source and destination of a record
Row(item) ==
  [amount |-> formatAmount(item.amount, item.decimals),
   from |-> getSourceChain(item),
   to |-> getDestinationChain(item.dest_para_id)]

\* what the component shows: nothing without an account or while loading
Rows ==
  IF historyAccount /\ ~isLoading THEN [i \in 1..Len(history) |-> Row(history[i])]
  ELSE <<>>

----------------------------------------------------------------------------
(* TransferHistory: the records the indexer may return *)

Transfer(hash, hasFrom, fromPara, fromChain, destPara, amount, decimals) ==
  [message_hash |-> hash, has_from_para_id |-> hasFrom, from_para_id |-> fromPara,
   from_chain |-> fromChain, dest_para_id |-> destPara,
   amount |-> amount, decimals |-> decimals]

T1 == Transfer("0x01", FALSE, 0, "polkadot", 2037,
               <<"5", "0", "0", "0", "0", "0", "0", "0", "0", "0", "0">>, 10)
T2 == Transfer("0x02", TRUE, 1000, "assethub", 2037,
               <<"1", "2", "3", "4", "5", "6", "7", "8", "9", "0", "9">>, 10)
T3 == Transfer("0x03", TRUE, 2037, "polkadot", 0,
               <<"1", "9", "9", "9", "9", "9", "9", "9", "9", "9", "9", "9", "9", "9", "9", "9", "9", "9", "9">>, 18)
T4 == Transfer("0x04", TRUE, 0, "unique", 9999, <<"0">>, 10)
T5 == Transfer("0x05", TRUE, 3344, "Polkadot", 1000, <<"9", "9", "9">>, 18)
T6 == Transfer("0x06", FALSE, 0, "Polkadot", 1,
               <<"9", "9", "9", "9", "9", "9", "9", "9", "9", "9">>, 10)
T7 == Transfer("0x07", FALSE, 0, "kusama", 2037,
               <<"1", "0", "0", "0", "0", "9", "9", "9", "9", "9", "9", "9", "9", "9", "9", "9", "9", "9", "9", "9", "9">>, 18)

HistoryLists == { <<>>, <<T1, T2>>, <<T3>>, <<T4, T5>>, <<T6, T7>> }

\* a body of the indexer's answer: whether it is JSON at all, its code, whether
\* it has data and data.list, and the list
Body(json, code, hasData, hasList, list) ==
  [json |-> json, code |-> code, hasData |-> hasData, hasList |-> hasList, list |-> list]

Bodies ==
  { Body(TRUE, 0, TRUE, TRUE, l) : l \in HistoryLists }
    \cup { Body(FALSE, 0, FALSE, FALSE, <<>>),
           Body(TRUE, 10004, TRUE, TRUE, <<T1, T2>>),
           Body(TRUE, 0, FALSE, FALSE, <<>>),
           Body(TRUE, 0, TRUE, FALSE, <<>>) }

\* how the request itself may fail: fetch rejects, or response.ok is false
RequestFailures == {"unreachable", "notOk"}

----------------------------------------------------------------------------
(* TransferHistory: fetchHistory *)

UnusedCalls == {n \in 1..MaxHistoryCalls : historyCalls[n].pc = "unused"}
NextCall == CHOOSE n \in UnusedCalls : \A m \in UnusedCalls : n <= m

\* fetchHistory() up to its first await, with the account of its closure:
\* without an account it returns at once
CallFetchHistory(account) ==
  IF account
  THEN /\ UnusedCalls # {}
       /\ isLoading' = TRUE
       /\ historyCalls' = [historyCalls EXCEPT ![NextCall].pc = "fetch"]
  ELSE UNCHANGED <<isLoading, historyCalls>>

\* the parent hands the component an account object: fetchHistory is
\* re-created and the effect on [fetchHistory] calls it
AccountProp ==
  /\ historyAccount' = TRUE
  /\ CallFetchHistory(TRUE)
  /\ UNCHANGED <<exchangeVars, history, exposedBy>>

\* one of the two refresh buttons, which are there while nothing is loading
RefreshHistory ==
  /\ historyAccount
  /\ ~isLoading
  /\ CallFetchHistory(historyAccount)
  /\ UNCHANGED <<exchangeVars, historyAccount, history, exposedBy>>

\* a catch that leaves the history as it was
KeepHistory == history

\* setHistory([])
ResetHistory == <<>>

\* a history that appends what arrived to what was there
MergedHistory(old, body) ==
  IF body.json /\ body.code = 0 /\ body.hasData /\ body.hasList
  THEN old \o body.list ELSE ResetHistory

\* what the call exposes for a body: data.data.list when the code is 0 and the
\* list is there, else (and when response.json() throws) the empty history
NextHistory(old, body) ==
  IF body.json /\ body.code = 0 /\ body.hasData /\ body.hasList
  THEN body.list ELSE ResetHistory

\* how the promise of a fetchHistory call ends: the catch swallows every error
Returns == "resolved"

\* the branch of fetchHistory that calls setHistory for a body: the list, the
\* else branch (a code other than 0, no data, no list), or the catch
Branch(body) ==
  IF ~body.json THEN "catch"
  ELSE IF body.code = 0 /\ body.hasData /\ body.hasList THEN "list"
  ELSE "else"

\* the end of a call that set the history in branch b: the finally clears the
\* loading flag (the call's record keeps what it exposed)
EndCall(n, b) ==
  /\ isLoading' = FALSE
  /\ exposedBy' = n
  /\ historyCalls' = [historyCalls EXCEPT ![n] =
                        [pc |-> "done", body |-> <<>>, ended |-> b,
                         exposed |-> history', result |-> Returns]]

\* the request fails: the catch resets the history
IndexerFails(n, how) ==
  /\ historyCalls[n].pc = "fetch"
  /\ how \in RequestFailures
  /\ history' = ResetHistory
  /\ EndCall(n, "catch")
  /\ UNCHANGED <<exchangeVars, historyAccount>>

\* the response arrives with response.ok; its body is still to be read
IndexerAnswers(n, body) ==
  /\ historyCalls[n].pc = "fetch"
  /\ historyCalls' = [historyCalls EXCEPT ![n] = [@ EXCEPT !.pc = "json", !.body = <<body>>]]
  /\ UNCHANGED <<exchangeVars, historyAccount, history, isLoading, exposedBy>>

\* response.json() settles and the call runs to its end
BodyParsed(n) ==
  /\ historyCalls[n].pc = "json"
  /\ history' = NextHistory(history, historyCalls[n].body[1])
  /\ EndCall(n, Branch(historyCalls[n].body[1]))
  /\ UNCHANGED <<exchangeVars, historyAccount>>

----------------------------------------------------------------------------
(* Balance figures: the strings fetchBalances stores next to the raw values *)

\* the powers of ten of the SI table of @polkadot/util, yocto to yotta
SiPower == <<-24, -21, -18, -15, -12, -9, -6, -3, 0, 3, 6, 9, 12, 15, 18, 21, 24>>

\* calcSi(text, decimals).power: the table entry at
\* SI_MID - 1 + Math.ceil((text.length - decimals) / 3), SI_MID = 8, and the
\* first or the last entry for an index outside the table
calcSi(text, decimals) ==
  LET siDefIndex == 7 - ((decimals - Len(text)) \div 3)
  IN  SiPower[Max(0, Min(siDefIndex, Len(SiPower) - 1)) + 1]

\* s.substring(from, to), 0 <= from <= to: both ends are cut at the length of s
Substring(s, from, to) == SubSeq(s, Min(from, Len(s)) + 1, Min(to, Len(s)))

\* s.padStart(n, '0') and s.padEnd(n, '0')
PadStart(s, n) == [i \in 1..Max(0, n - Len(s)) |-> "0"] \o s
PadEnd(s, n) == s \o [i \in 1..Max(0, n - Len(s)) |-> "0"]

\* formatDecimal(value): the digits in groups of three, separated by commas
RECURSIVE formatDecimal(_)
formatDecimal(value) ==
  IF Len(value) <= 3 THEN value
  ELSE formatDecimal(SubSeq(value, 1, Len(value) - 3))
         \o <<",">> \o SubSeq(value, Len(value) - 2, Len(value))

\* formatBalance(text, { decimals, withSi: false }) of @polkadot/util: the
\* digits are split at the place of the SI unit calcSi picks for the value
\* (withSi: false leaves out the unit's name, not its scale), the part after
\* the split is cut to 4 digits
formatBalance(text, decimals) ==
  IF text = <<"0">> THEN <<"0">>
  ELSE LET mid  == Len(text) - (decimals + calcSi(text, decimals))
           pre  == IF mid <= 0 THEN <<"0">> ELSE Substring(text, 0, mid)
           padded == PadStart(text, IF mid < 0 THEN decimals ELSE 1)
           rest == Substring(padded, IF mid < 0 THEN 0 ELSE mid, Len(padded))
           post == Substring(PadEnd(rest, 4), 0, 4)
       IN  formatDecimal(pre) \o <<".">> \o post

\* x.dividedBy(new BigNumber(10).pow(k)): exact, the quotient has at most k
\* decimal places more than x (bignumber.js keeps 20)
DividedByPow10(x, k) ==
  LET i == Zeros(Max(0, k - Len(x.ip))) \o x.ip
  IN  [ip |-> StripLeading(SubSeq(i, 1, Len(i) - k)),
       fp |-> StripTrailing(SubSeq(i, Len(i) - k + 1, Len(i)) \o x.fp)]

\* x.toFixed(dp) of bignumber.js: dp decimal places, rounded with its
\* ROUNDING_MODE, which is ROUND_HALF_UP unless configured
toFixed(x, dp) ==
  LET f == x.fp \o Zeros(Max(0, dp + 1 - Len(x.fp)))
      kept == [ip |-> StripLeading(x.ip \o SubSeq(f, 1, dp)), fp |-> <<>>]
      rounded == IF f[dp + 1] >= 5 THEN Plus(kept, Pow10(0)) ELSE kept
      d == Zeros(Max(0, dp + 1 - Len(rounded.ip))) \o rounded.ip
  IN  ToChars(SubSeq(d, 1, Len(d) - dp)) \o <<".">>
        \o ToChars(SubSeq(d, Len(d) - dp + 1, Len(d)))

Decimals(key) == IF key = "unique" THEN UNQ_DECIMALS ELSE DOT_DECIMALS

\* the string stored for a raw free, reserved or total value of a chain:
\* formatBalance for Polkadot and Unique, dividedBy(10^DOT_DECIMALS).toFixed(4)
\* for Asset Hub
Formatted(key, raw) ==
  IF key = "assetHub"
  THEN toFixed(DividedByPow10(BigNumber(raw), DOT_DECIMALS), 4)
  ELSE formatBalance(raw, Decimals(key))

\* getDotBalanceOnUnique: "0" for a zero balance, else
\* dividedBy(10^DOT_DECIMALS).toFixed() in the threeChain version (every
\* decimal place, plain notation) and formatBalance in the twoWay version
DotFormatted(v, raw) ==
  IF raw = <<"0">> THEN <<"0">>
  ELSE IF v = "threeChain"
  THEN BnToString(DividedByPow10(BigNumber(raw), DOT_DECIMALS))
  ELSE formatBalance(raw, DOT_DECIMALS)

\* free.add(reserved).toString()
TotalOf(s) == BnToString(Plus(BigNumber(s.free), BigNumber(s.reserved)))

Figure(key, field, raw, shown) ==
  [key |-> key, field |-> field, raw |-> raw, shown |-> shown]

\* the figures of the balance store b: free, reserved and total of every
\* chain snapshot, and the balance of the foreign-asset snapshot
Figures(v, b) ==
  UNION { IF ~b[k].present THEN {}
          ELSE IF k = "uniqueDot"
          THEN { Figure(k, "balance", b[k].free, DotFormatted(v, b[k].free)) }
          ELSE { Figure(k, "free", b[k].free, Formatted(k, b[k].free)),
                 Figure(k, "reserved", b[k].reserved, Formatted(k, b[k].reserved)),
                 Figure(k, "total", TotalOf(b[k]), Formatted(k, TotalOf(b[k]))) }
        : k \in BalanceKeys }

----------------------------------------------------------------------------
(* The execute control: the pre-checks of the render *)

\* the fee the pre-check adds to the amount, as written in the render
FeeText(v, d) ==
  IF d = "toPolkadot" THEN "0" ELSE IF v = "threeChain" THEN "0.01" ELSE "0.1"

\* The pre-check compares doubles: available >= required, where required is
\* the double transferAmountNum + fee and available is parseFloat of the
\* balance string.  parseFloat is monotone and rounds to nearest, ties to even,
\* so the comparison holds exactly when the decimal string lies above the
\* midpoint between the double `required` and its predecessor, or on it when
\* the tie rounds to `required` (reached).  These are the exact midpoints for
\* the amounts of AmountInputs.
RequiredRoundingPoint(s, fee) ==
  CASE s = <<"1">> /\ fee = "0.01" ->
       [point |-> <<"1", ".", "0", "0", "9", "9", "9", "9", "9", "9", "9", "9", "9", "9", "9", "9", "9", "8", "9", "7", "8", "5", "9", "4", "8", "1", "7", "3", "4", "4", "8", "5", "5", "9", "8", "2", "8", "1", "0", "2", "5", "8", "8", "6", "5", "3", "5", "6", "4", "4", "5", "3", "1", "2", "5">>,
        reached |-> FALSE]
    [] s = <<"0", ".", "0", "0", "0", "5">> /\ fee = "0.01" ->
       [point |-> <<"0", ".", "0", "1", "0", "4", "9", "9", "9", "9", "9", "9", "9", "9", "9", "9", "9", "9", "9", "9", "7", "8", "4", "8", "9", "4", "2", "8", "8", "9", "7", "8", "8", "7", "5", "9", "2", "0", "2", "9", "2", "9", "2", "1", "3", "6", "4", "3", "0", "7", "4", "0", "3", "5", "6", "4", "4", "5", "3", "1", "2", "5">>,
        reached |-> FALSE]
    [] s = <<"2", "0", "0", "0">> /\ fee = "0.01" ->
       [point |-> <<"2", "0", "0", "0", ".", "0", "0", "9", "9", "9", "9", "9", "9", "9", "9", "9", "9", "8", "7", "7", "2", "1", "8", "2", "1", "5", "2", "6", "0", "6", "5", "4", "6", "8", "7", "8", "8", "1", "4", "6", "9", "7", "2", "6", "5", "6", "2", "5">>,
        reached |-> FALSE]
    [] s = <<"1", ".", "0", "0", "0", "0", "0", "0", "0", "0", "0", "0", "1">> /\ fee = "0.01" ->
       [point |-> <<"1", ".", "0", "1", "0", "0", "0", "0", "0", "0", "0", "0", "0", "9", "9", "9", "9", "8", "9", "8", "6", "8", "6", "8", "8", "5", "4", "4", "4", "4", "7", "6", "5", "0", "2", "0", "1", "6", "1", "8", "6", "7", "1", "4", "1", "7", "2", "3", "6", "3", "2", "8", "1", "2", "5">>,
        reached |-> FALSE]
    [] s = <<"1", "0", "0", "0", ".", "0", "0", "0", "0", "0", "0", "0", "0", "0", "0", "0", "0", "0", "1">> /\ fee = "0.01" ->
       [point |-> <<"1", "0", "0", "0", ".", "0", "0", "9", "9", "9", "9", "9", "9", "9", "9", "9", "9", "9", "3", "4", "0", "6", "1", "6", "3", "4", "1", "2", "1", "4", "6", "2", "7", "0", "2", "7", "5", "1", "1", "5", "9", "6", "6", "7", "9", "6", "8", "7", "5">>,
        reached |-> TRUE]
    [] s = <<"1">> /\ fee = "0.1" ->
       [point |-> <<"1", ".", "0", "9", "9", "9", "9", "9", "9", "9", "9", "9", "9", "9", "9", "9", "9", "9", "7", "7", "7", "9", "5", "5", "3", "9", "5", "0", "7", "4", "9", "6", "8", "6", "9", "1", "9", "1", "5", "2", "7", "3", "6", "6", "6", "3", "8", "1", "8", "3", "5", "9", "3", "7", "5">>,
        reached |-> TRUE]
    [] s = <<"0", ".", "0", "0", "0", "5">> /\ fee = "0.1" ->
       [point |-> <<"0", ".", "1", "0", "0", "4", "9", "9", "9", "9", "9", "9", "9", "9", "9", "9", "9", "9", "9", "9", "0", "5", "6", "3", "1", "0", "4", "2", "9", "0", "6", "8", "6", "1", "6", "9", "4", "0", "6", "3", "9", "9", "1", "3", "0", "8", "2", "1", "2", "2", "8", "0", "2", "7", "3", "4", "3", "7", "5">>,
        reached |-> TRUE]
    [] s = <<"2", "0", "0", "0">> /\ fee = "0.1" ->
       [point |-> <<"2", "0", "0", "0", ".", "0", "9", "9", "9", "9", "9", "9", "9", "9", "9", "9", "9", "7", "9", "5", "3", "6", "3", "6", "9", "2", "1", "0", "1", "0", "9", "1", "1", "4", "6", "4", "6", "9", "1", "1", "6", "2", "1", "0", "9", "3", "7", "5">>,
        reached |-> TRUE]
    [] s = <<"1", ".", "0", "0", "0", "0", "0", "0", "0", "0", "0", "0", "1">> /\ fee = "0.1" ->
       [point |-> <<"1", ".", "1", "0", "0", "0", "0", "0", "0", "0", "0", "0", "0", "9", "9", "9", "9", "9", "7", "8", "6", "2", "2", "9", "4", "3", "2", "1", "7", "4", "8", "7", "7", "7", "2", "9", "2", "6", "6", "8", "8", "1", "9", "4", "2", "7", "4", "9", "0", "2", "3", "4", "3", "7", "5">>,
        reached |-> TRUE]
    [] s = <<"1", "0", "0", "0", ".", "0", "0", "0", "0", "0", "0", "0", "0", "0", "0", "0", "0", "0", "1">> /\ fee = "0.1" ->
       [point |-> <<"1", "0", "0", "0", ".", "0", "9", "9", "9", "9", "9", "9", "9", "9", "9", "9", "9", "9", "6", "5", "8", "9", "3", "9", "4", "8", "6", "8", "3", "5", "1", "5", "1", "9", "1", "0", "7", "8", "1", "8", "6", "0", "3", "5", "1", "5", "6", "2", "5">>,
        reached |-> FALSE]
    [] s = <<"1">> /\ fee = "0" ->
       [point |-> <<"0", ".", "9", "9", "9", "9", "9", "9", "9", "9", "9", "9", "9", "9", "9", "9", "9", "9", "4", "4", "4", "8", "8", "8", "4", "8", "7", "6", "8", "7", "4", "2", "1", "7", "2", "9", "7", "8", "8", "1", "8", "4", "1", "6", "5", "9", "5", "4", "5", "8", "9", "8", "4", "3", "7", "5">>,
        reached |-> TRUE]
    [] s = <<"0", ".", "0", "0", "0", "5">> /\ fee = "0" ->
       [point |-> <<"0", ".", "0", "0", "0", "4", "9", "9", "9", "9", "9", "9", "9", "9", "9", "9", "9", "9", "9", "9", "9", "5", "6", "1", "9", "8", "2", "3", "2", "2", "3", "1", "5", "8", "5", "6", "2", "0", "8", "6", "6", "0", "9", "8", "9", "0", "6", "8", "4", "4", "8", "5", "4", "3", "5", "4", "8", "5", "8", "3", "9", "8", "4", "3", "7", "5">>,
        reached |-> TRUE]
    [] s = <<"2", "0", "0", "0">> /\ fee = "0" ->
       [point |-> <<"1", "9", "9", "9", ".", "9", "9", "9", "9", "9", "9", "9", "9", "9", "9", "9", "9", "8", "8", "6", "3", "1", "3", "1", "6", "2", "2", "7", "8", "3", "8", "3", "9", "7", "0", "2", "6", "0", "6", "2", "0", "1", "1", "7", "1", "8", "7", "5">>,
        reached |-> TRUE]
    [] s = <<"1", ".", "0", "0", "0", "0", "0", "0", "0", "0", "0", "0", "1">> /\ fee = "0" ->
       [point |-> <<"1", ".", "0", "0", "0", "0", "0", "0", "0", "0", "0", "0", "0", "9", "9", "9", "9", "8", "8", "9", "8", "0", "5", "1", "0", "1", "2", "4", "7", "4", "7", "5", "2", "4", "9", "6", "9", "2", "7", "9", "7", "6", "6", "0", "8", "2", "7", "6", "3", "6", "7", "1", "8", "7", "5">>,
        reached |-> TRUE]
    [] s = <<"1", "0", "0", "0", ".", "0", "0", "0", "0", "0", "0", "0", "0", "0", "0", "0", "0", "0", "1">> /\ fee = "0" ->
       [point |-> <<"9", "9", "9", ".", "9", "9", "9", "9", "9", "9", "9", "9", "9", "9", "9", "9", "9", "4", "3", "1", "5", "6", "5", "8", "1", "1", "3", "9", "1", "9", "1", "9", "8", "5", "1", "3", "0", "3", "1", "0", "0", "5", "8", "5", "9", "3", "7", "5">>,
        reached |-> TRUE]

\* const isAmountValid = transferAmountNum >= MIN_DOT_TRANSFER && transferAmountNum <= MAX_DOT_TRANSFER
isAmountValid(s, v) ==
  s # <<>> /\ ~ParseFloatBelowMin(s, v) /\ ~ParseFloatAboveMax(s)

\* the balance string the pre-check of a direction reads: free of the source
\* chain's snapshot, balance of the foreign-asset snapshot
AvailableText(v, d, b) ==
  IF SourceBalanceKey(d) = "uniqueDot"
  THEN DotFormatted(v, b["uniqueDot"].free)
  ELSE Formatted(SourceBalanceKey(d), b[SourceBalanceKey(d)].free)

\* isBalanceSufficient(): true without an amount or without a snapshot
isBalanceSufficient(v, d, b, s) ==
  IF s = <<>> \/ ~b[SourceBalanceKey(d)].present THEN TRUE
  ELSE LET available == BigNumber(SelectSeq(AvailableText(v, d, b), LAMBDA c : c # ","))
           required  == RequiredRoundingPoint(s, FeeText(v, d))
       IN  IF required.reached THEN ~Lt(available, BigNumber(required.point))
           ELSE Lt(BigNumber(required.point), available)

\* the execute control is enabled:
\* disabled={!transferAmount || !isAmountValid || !isBalanceSufficient()
\*           || transactionStatus.status === "pending"}
ExecuteEnabled ==
  /\ transferAmount # <<>>
  /\ isAmountValid(transferAmount, variant)
  /\ isBalanceSufficient(variant, transferDirection, bal, transferAmount)
  /\ transactionStatus.status # "pending"

\* the user presses the execute control
ClickExecute == ExecuteEnabled /\ ExecuteTransfer

----------------------------------------------------------------------------
(* Specifications *)

Next ==
  \/ ConnectWallet
  \/ \E ok \in BOOLEAN : InitStep(ok)
  \/ \E r \in 1..MaxFetchRuns, ok \in BOOLEAN : FetchStep(r, ok)
  \/ PollTick
  \/ RefreshBalances
  \/ \E s \in AmountInputs \cup {<<>>} : SetTransferAmount(s)
  \/ \E d \in Directions(variant) : SetTransferDirection(d)
  \/ ExecuteTransfer
  \/ \E a \in 1..MaxAttempts, ok \in BOOLEAN : InjectorAnswers(a, ok)
  \/ \E a \in 1..MaxAttempts, ok \in BOOLEAN : SignAndSendAnswers(a, ok)
  \/ \E a \in 1..MaxAttempts, ev \in TerminalEvents : WatchEvent(a, ev)
  \/ \E a \in 1..MaxAttempts : RefreshTimerFires(a)
  \/ \E a \in 1..MaxAttempts : ResetTimerFires(a)

\* the whole component, from its construction
Spec == Init /\ [][Next]_vars

\* The transfer orchestrator on its own.  executeTransfer reads the balance
\* store and the connection handles only when it is called (its closure holds
\* them from then on), so the orchestrator is explored from the states in which
\* a user can call it: an account is selected, initializeAPIs has finished with
\* every chain connected or with Polkadot unreachable, and the fetchBalances
\* run that connectWallet starts is at its first query or has run to its end.
\* No further run is started but by the refresh an attempt itself triggers.
ReadyStates ==
  { [down |-> {}, fetched |-> FALSE],
    [down |-> {}, fetched |-> TRUE],
    [down |-> {"polkadot"}, fetched |-> TRUE] }

Connected(v, down) ==
  [c \in Chains |-> (\E i \in 1..Len(ConnectOrder(v)) : ConnectOrder(v)[i] = c) /\ c \notin down]

\* the balance store after a fetchBalances run in which every query answered
RECURSIVE FetchedFrom(_, _, _, _)
FetchedFrom(b, v, apis, st) ==
  IF st = "idle" THEN b
  ELSE FetchedFrom(BalancesAfter(b, st, TRUE), v, apis, StageAfter(v, apis, st, TRUE))

TransferInit ==
  /\ variant \in Variants
  /\ chain \in ChainStates(variant)
  /\ selectedAccount = TRUE
  /\ \E e \in ReadyStates :
       /\ api = Connected(variant, e.down)
       /\ initErrors = e.down
       /\ connectionErrors = e.down
       /\ bal = IF e.fetched
                THEN FetchedFrom([k \in BalanceKeys |-> NoBalance], variant,
                                 Connected(variant, e.down),
                                 StageFrom(variant, Connected(variant, e.down), 1))
                ELSE [k \in BalanceKeys |-> NoBalance]
       /\ fetch = IF e.fetched
                  THEN [r \in 1..MaxFetchRuns |-> IdleRun]
                  ELSE StartFetch([r \in 1..MaxFetchRuns |-> IdleRun],
                                  Connected(variant, e.down), FALSE)
  /\ initPc = Len(ConnectOrder(variant)) + 1
  /\ transferAmount = <<>>
  /\ transferDirection = InitialDirection(variant)
  /\ transactionStatus = Status("idle", "none")
  /\ isRefreshing = FALSE
  /\ pollTimer = 1
  /\ failures = 0
  /\ att = [a \in 1..MaxAttempts |-> UnusedAttempt]
  /\ fetchToasts = {}
  /\ queryOrder = OrderAfter(NoOrder(MaxFetchRuns),
                             [r \in 1..MaxFetchRuns |-> IdleRun], fetch, 0)
  /\ HistoryMounted

\* no executeTransfer call is in progress, is watched or has left timers
NoAttempt == \A a \in 1..MaxAttempts : att[a].pc = "unused"

\* executeTransfer is called at any time, but a call that gets past the bounds
\* checks (an attempt) only when no earlier attempt is left; attempts that
\* follow one another closely are explored under SpecResubmit
OneAtATime == NoAttempt \/ BoundsError(transferAmount, variant) # "none"
StartAttempt == OneAtATime /\ ExecuteTransfer

TransferNext ==
  \/ \E s \in AmountInputs \cup {<<>>} : SetTransferAmount(s)
  \/ \E d \in Directions(variant) : SetTransferDirection(d)
  \/ StartAttempt
  \/ \E a \in 1..MaxAttempts, ok \in BOOLEAN : InjectorAnswers(a, ok)
  \/ \E a \in 1..MaxAttempts, ok \in BOOLEAN : SignAndSendAnswers(a, ok)
  \/ \E a \in 1..MaxAttempts, ev \in TerminalEvents : WatchEvent(a, ev)
  \/ \E a \in 1..MaxAttempts : RefreshTimerFires(a)
  \/ \E a \in 1..MaxAttempts : ResetTimerFires(a)
  \/ \E r \in 1..MaxFetchRuns, ok \in BOOLEAN : FetchStep(r, ok)

\* the watch stream of the transport library: nothing is delivered once the
\* subscription is released
SpecTransfer == TransferInit /\ [][TransferNext]_vars

\* The transfer orchestrator whose collaborators answer: web3FromAddress and
\* signAndSend settle, and the watch stream of an attempt delivers an InBlock
\* or an error result.
SignerAnswers ==
  \E a \in 1..MaxAttempts, ok \in BOOLEAN :
    InjectorAnswers(a, ok) \/ SignAndSendAnswers(a, ok)
StreamDelivers ==
  \E a \in 1..MaxAttempts, ev \in TerminalEvents : WatchEvent(a, ev)

SpecTransferFair ==
  SpecTransfer /\ WF_vars(SignerAnswers) /\ WF_vars(StreamDelivers)

\* a watch stream that may repeat a terminal result after the release
TransferNextDup ==
  \/ TransferNext
  \/ \E a \in 1..MaxAttempts, ev \in TerminalEvents : DuplicateEvent(a, ev)

SpecTransferDup == TransferInit /\ [][TransferNextDup]_vars

\* The TransferHistory component on its own: its parent may hand it an account
\* object at any time (the page of this repository hands it the account the
\* exchange component selected); the exchange component stays as constructed.
HistoryInit ==
  /\ Init
  /\ variant = "threeChain"
  /\ chain = CHOOSE c \in ChainStates("threeChain") : TRUE

HistoryNext ==
  \/ AccountProp
  \/ RefreshHistory
  \/ \E n \in 1..MaxHistoryCalls, how \in RequestFailures : IndexerFails(n, how)
  \/ \E n \in 1..MaxHistoryCalls, body \in Bodies : IndexerAnswers(n, body)
  \/ \E n \in 1..MaxHistoryCalls : BodyParsed(n)

SpecHistory == HistoryInit /\ [][HistoryNext]_vars

\* The balance side of the exchange component on its own, from its
\* construction: connectWallet, initializeAPIs, the fetchBalances runs, the
\* poll and the manual refresh; no transfer is attempted.
BalancesNext ==
  \/ ConnectWallet
  \/ \E ok \in BOOLEAN : InitStep(ok)
  \/ \E r \in 1..MaxFetchRuns, ok \in BOOLEAN : FetchStep(r, ok)
  \/ PollTick
  \/ RefreshBalances

SpecBalances == Init /\ [][BalancesNext]_vars


\* The balance side when the Polkadot endpoint is slow or silent: its query
\* may answer at any time or never, every other query a run awaits is
\* answered (or fails) eventually.
OtherAnswers ==
  \E r \in 1..MaxFetchRuns, ok \in BOOLEAN :
    fetch[r].pc # "polkadot" /\ FetchStep(r, ok)

SpecBalancesFair == SpecBalances /\ WF_vars(OtherAnswers)

\* The balance side when the Polkadot endpoint never has to answer, neither
\* ApiPromise.create nor its balance query: every other connection attempt
\* and every other query is settled eventually.  The code sets no timer on
\* either await, so nothing but the endpoint's answer moves a run past it.
OtherConnects ==
  \E ok \in BOOLEAN :
    /\ initPc <= Len(ConnectOrder(variant))
    /\ ConnectOrder(variant)[initPc] # "polkadot"
    /\ InitStep(ok)

SpecSilentEndpoint ==
  SpecBalances /\ WF_vars(OtherAnswers) /\ WF_vars(OtherConnects)


\* The balance side with fetchBalances runs that overlap: the effect's call,
\* the 30-second poll and the manual refresh each start a run whether or not
\* an earlier one is still awaiting a query.
MaxOverlappingRuns == 2

OverlapNext ==
  \/ ConnectWallet
  \/ \E ok \in BOOLEAN : InitStep(ok)
  \/ \E r \in 1..MaxOverlappingRuns, ok \in BOOLEAN : FetchStep(r, ok)
  \/ PollTick
  \/ RefreshBalances

SpecOverlap == Constructed(MaxOverlappingRuns) /\ [][OverlapNext]_vars

\* Attempts that follow one another: the user types an amount and presses the
\* execute control whenever the render enables it, also while the timers of
\* an earlier attempt are still to fire.
ResubmitInputs == { <<"1">> }

ResubmitNext ==
  \/ \E s \in ResubmitInputs : SetTransferAmount(s)
  \/ ClickExecute
  \/ \E a \in 1..MaxAttempts, ok \in BOOLEAN : InjectorAnswers(a, ok)
  \/ \E a \in 1..MaxAttempts, ok \in BOOLEAN : SignAndSendAnswers(a, ok)
  \/ \E a \in 1..MaxAttempts, ev \in TerminalEvents : WatchEvent(a, ev)
  \/ \E a \in 1..MaxAttempts : RefreshTimerFires(a)
  \/ \E a \in 1..MaxAttempts : ResetTimerFires(a)
  \/ \E r \in 1..MaxFetchRuns, ok \in BOOLEAN : FetchStep(r, ok)

SpecResubmit == TransferInit /\ [][ResubmitNext]_vars

----------------------------------------------------------------------------
(* Properties of executeTransfer: validation *)

FeeRoutes == {"fromPolkadot", "fromAssetHub", "toUnique"}
RelayToChild == {"fromPolkadot", "toUnique"}

One == [ip |-> <<1>>, fp |-> <<>>]
SameNumber(x, y) == ~Lt(x, y) /\ ~Lt(y, x)
WithinBounds(s, v) ==
  /\ ~IsNegative(s)
  /\ ~Lt(BigNumber(s), BigNumber(MIN_DOT_TRANSFER(v)))
  /\ ~Lt(BigNumber(MAX_DOT_TRANSFER), BigNumber(s))

\* what a fee route needs on the source chain: the amount in minor units plus
\* the fee estimate
Needed(a) == Plus(AmountOf(att[a].amount), FeeEstimate(variant))

\* C1: an attempt whose requested amount lies below the minimum or above the
\* maximum never reaches Signing: every attempt that is at signAndSend carries
\* an amount within [MIN_DOT_TRANSFER, MAX_DOT_TRANSFER].
C1_OutOfBoundsNeverSigned ==
  \A a \in 1..MaxAttempts :
    att[a].pc = "signing" => WithinBounds(att[a].amount, variant)

\* C2: on a route with a fee estimate, when the balance check answers for a
\* snapshot whose free balance equals amount + feeEstimate the attempt is not
\* turned away for its balance (it goes on to Signing unless the signer or the
\* connection fails), and for a free balance one minor unit lower the attempt
\* does not reach Signing and is turned away with the insufficient-balance
\* error (or the signer's).
C2_BoundaryInclusive ==
  [][ \A a \in 1..MaxAttempts :
        ( /\ att[a].pc = "injector"
          /\ att'[a].pc # "injector"
          /\ att[a].dir \in FeeRoutes
          /\ att[a].srcBal.present )
        => /\ SameNumber(BigNumber(att[a].srcBal.free), Needed(a))
                => \/ att'[a].pc = "signing"
                   \/ transactionStatus' \in {Status("error", "SignerError"),
                                              Status("error", "NotConnected")}
           /\ SameNumber(Plus(BigNumber(att[a].srcBal.free), One), Needed(a))
                => /\ att'[a].pc # "signing"
                   /\ transactionStatus' \in {Status("error", "InsufficientBalance"),
                                              Status("error", "SignerError")} ]_vars

\* C2 witness: an attempt is at Signing whose snapshot held exactly
\* amount + feeEstimate
C2_Witness ==
  \E a \in 1..MaxAttempts :
    /\ att[a].pc = "signing"
    /\ att[a].dir \in FeeRoutes
    /\ att[a].srcBal.present
    /\ SameNumber(BigNumber(att[a].srcBal.free), Needed(a))

\* C3: whatever the balance store holds, an attempt on a fee route whose amount
\* in minor units exceeds the source chain's free balance minus the fee
\* estimate never reaches Signing.
C3_OverdrawNeverSigned ==
  \A a \in 1..MaxAttempts :
    (att[a].pc = "signing" /\ att[a].dir \in FeeRoutes)
      => ~Lt(BigNumber(chain[SourceChain(att[a].dir)].free), Needed(a))

----------------------------------------------------------------------------
(* Properties of the watch callback *)

\* C4: the step in which an attempt sees InBlock without
\* system.ExtrinsicSuccess sets the status error; a step that makes the status
\* success is one in which an attempt sees InBlock with system.ExtrinsicSuccess.
C4_SuccessNeedsSuccessEvent ==
  [][ /\ \A a \in 1..MaxAttempts :
           ("inBlockFail" \in att'[a].seen /\ "inBlockFail" \notin att[a].seen)
             => transactionStatus'.status = "error"
      /\ (transactionStatus'.status = "success" /\ transactionStatus.status # "success")
           => \E a \in 1..MaxAttempts :
                "inBlockOk" \in att'[a].seen /\ "inBlockOk" \notin att[a].seen ]_vars

\* C4 witness: an attempt saw InBlock without the success event and the status
\* is the in-block failure
C4_Witness ==
  \E a \in 1..MaxAttempts :
    /\ att[a].seen = {"inBlockFail"}
    /\ transactionStatus = Status("error", "FailedInBlock")

\* C5: an attempt that holds a watch subscription has released it exactly once
\* when it has seen a terminal result (success, in-block failure or error), and
\* not at all before.
C5_ReleasedExactlyOnce ==
  \A a \in 1..MaxAttempts :
    att[a].pc = "watching"
      => att[a].unsubCalls = (IF att[a].seen = {} THEN 0 ELSE 1)

\* C5 witness: an attempt saw the stream's error result and released its
\* subscription once
C5_Witness ==
  \E a \in 1..MaxAttempts :
    att[a].pc = "watching" /\ att[a].seen = {"error"} /\ att[a].unsubCalls = 1

\* C6: a terminal result delivered to an attempt that already handled one
\* changes neither the status nor the amount field, sets no timer and does not
\* release the subscription again.
C6_DuplicateIsNoOp ==
  [][ \A a \in 1..MaxAttempts :
        (att[a].unsubCalls > 0 /\ att'[a].dups > att[a].dups)
          => /\ transactionStatus' = transactionStatus
             /\ transferAmount' = transferAmount
             /\ att'[a].unsubCalls = att[a].unsubCalls
             /\ att'[a].scheduled = att[a].scheduled ]_vars

\* C7: an attempt that saw the stream's error result has the status
\* transaction-failed set and, as after an in-block failure, the timer of the
\* balance refresh and the reset to idle scheduled.
C7_ErrorSchedulesRefreshAndReset ==
  \A a \in 1..MaxAttempts :
    "error" \in att[a].seen => att[a].scheduled >= 1

\* C8: the step in which an attempt sees its success starts no balance query
\* and leaves the amount field, and sets the refresh timer; the step in which
\* that timer fires starts the balance queries, clears the amount field, leaves
\* the status and sets the reset timer; the status leaves success for idle only
\* in the step in which a reset timer fires.
C8_SuccessRefreshIdleInOrder ==
  [][ /\ \A a \in 1..MaxAttempts :
           /\ ("inBlockOk" \in att'[a].seen /\ "inBlockOk" \notin att[a].seen)
                => /\ transactionStatus' = Status("success", "Success")
                   /\ fetch' = fetch
                   /\ transferAmount' = transferAmount
                   /\ att'[a].timer3 = att[a].timer3 + 1
                   /\ att'[a].timer5 = att[a].timer5
           /\ (att[a].pc = "watching" /\ att'[a].timer3 < att[a].timer3)
                => /\ fetch' # fetch
                   /\ transferAmount' = <<>>
                   /\ transactionStatus' = transactionStatus
                   /\ att'[a].timer5 = att[a].timer5 + 1
           /\ (att[a].pc = "watching" /\ att'[a].timer5 > att[a].timer5)
                => att'[a].timer3 < att[a].timer3
      /\ (transactionStatus.status = "success" /\ transactionStatus'.status = "idle")
           => \E a \in 1..MaxAttempts : att'[a].timer5 < att[a].timer5 ]_vars

\* C8 witness: after a success both timers of the attempt have fired: the
\* amount field is empty and the status idle
C8_Witness ==
  \E a \in 1..MaxAttempts :
    /\ att[a].seen = {"inBlockOk"}
    /\ att[a].scheduled = 1 /\ att[a].timer3 = 0 /\ att[a].timer5 = 0
    /\ transferAmount = <<>>
    /\ transactionStatus = Status("idle", "none")

----------------------------------------------------------------------------
(* Properties of the payload *)

TheAsset(a) == att[a].payload[1].assets[1]

\* C9: the Fungible field of the payload an attempt hands to signAndSend is
\* the requested amount times 10^10 written with digits only.
C9_FungibleIsIntegerString ==
  \A a \in 1..MaxAttempts :
    att[a].pc = "signing"
      => /\ \A i \in 1..Len(TheAsset(a).fungible) : IsDigitChar(TheAsset(a).fungible[i])
         /\ SameNumber(BigNumber(TheAsset(a).fungible),
                       TimesPow10(BigNumber(att[a].amount), DOT_DECIMALS))

\* C10: on the route from the relay chain to the child chain the payload's
\* destination has 0 parents and interior Parachain 2037, and its asset has
\* 0 parents and interior Here.
C10_RelayToChildDescriptors ==
  \A a \in 1..MaxAttempts :
    (att[a].pc = "signing" /\ att[a].dir \in RelayToChild)
      => /\ att[a].payload[1].destination.parents = 0
         /\ att[a].payload[1].destination.interior = <<[kind |-> "Parachain", para |-> 2037]>>
         /\ TheAsset(a).parents = 0
         /\ TheAsset(a).interior = <<>>

\* C10 witness: an attempt out of Polkadot is at signAndSend with its payload
C10_Witness ==
  \E a \in 1..MaxAttempts :
    /\ att[a].pc = "signing"
    /\ att[a].dir \in RelayToChild
    /\ att[a].payload[1].extrinsic = "xcmPallet.transferAssets"
\* C11: on the route from the child chain up to the relay chain (Unique to
\* Polkadot) the payload's destination has 1 parent and interior Here, and its
\* asset has 1 parent and interior Here.
C11_ChildToRelayDescriptors ==
  \A a \in 1..MaxAttempts :
    (att[a].pc = "signing" /\ att[a].dir = "toPolkadot")
      => /\ att[a].payload[1].destination.parents = 1
         /\ att[a].payload[1].destination.interior = <<>>
         /\ TheAsset(a).parents = 1
         /\ TheAsset(a).interior = <<>>

\* C11 witness: an attempt out of Unique is at signAndSend with its payload
C11_Witness ==
  \E a \in 1..MaxAttempts :
    /\ att[a].pc = "signing"
    /\ att[a].dir = "toPolkadot"
    /\ Len(att[a].payload) = 1

\* C12: on the route from a child chain to its sibling (Asset Hub to Unique)
\* the payload's destination has 1 parent and interior Parachain 2037, and its
\* asset has 1 parent and interior Here.
C12_SiblingDescriptors ==
  \A a \in 1..MaxAttempts :
    (att[a].pc = "signing" /\ att[a].dir = "fromAssetHub")
      => /\ att[a].payload[1].destination.parents = 1
         /\ att[a].payload[1].destination.interior = <<[kind |-> "Parachain", para |-> 2037]>>
         /\ TheAsset(a).parents = 1
         /\ TheAsset(a).interior = <<>>

\* C12 witness: an attempt out of Asset Hub is at signAndSend with its payload
C12_Witness ==
  \E a \in 1..MaxAttempts :
    /\ att[a].pc = "signing"
    /\ att[a].dir = "fromAssetHub"
    /\ att[a].payload[1].extrinsic = "polkadotXcm.reserveTransferAssets"

\* C13: on every route the payload's beneficiary has 0 parents and an interior
\* of one AccountId32, the selected account's address in hex.
C13_BeneficiaryDescriptor ==
  \A a \in 1..MaxAttempts :
    att[a].pc = "signing"
      => /\ att[a].payload[1].beneficiary.parents = 0
         /\ att[a].payload[1].beneficiary.interior =
              <<[kind |-> "AccountId32", id |-> <<"0x", "accountList[0].address">>]>>

\* C13 witness: attempts on a route out of a child chain are at signAndSend
C13_Witness ==
  \E a \in 1..MaxAttempts :
    /\ att[a].pc = "signing"
    /\ att[a].dir \in {"fromAssetHub", "toPolkadot"}
    /\ Len(att[a].payload[1].beneficiary.interior) = 1
----------------------------------------------------------------------------
(* Properties of TransferHistory *)

WellFormed(body) == body.json /\ body.code = 0 /\ body.hasData /\ body.hasList
CallsAtRest == \A n \in 1..MaxHistoryCalls : historyCalls[n].pc \in {"unused", "done"}
LastIssued ==
  CHOOSE n \in 0..MaxHistoryCalls :
    /\ n > 0 => historyCalls[n].pc # "unused"
    /\ \A m \in (n + 1)..MaxHistoryCalls : historyCalls[m].pc = "unused"

\* C15 as stated: once the fetchHistory calls that were made have all
\* completed, the exposed history is the response of the call issued last.
C15_LaterIssuedWins ==
  (CallsAtRest /\ LastIssued > 0) => history = historyCalls[LastIssued].exposed

\* C15 amended: the call whose response is read last wins: the step in which
\* a call reads its body replaces the history by exactly that body's list (the
\* empty history when the body has none), whatever was exposed and whichever
\* calls are still in flight.
C15_LastResponseWins ==
  [][ \A n \in 1..MaxHistoryCalls :
        (historyCalls[n].pc = "json" /\ historyCalls'[n].pc = "done")
          => /\ history' = (IF WellFormed(historyCalls[n].body[1])
                            THEN historyCalls[n].body[1].list ELSE <<>>)
             /\ exposedBy' = n ]_vars

\* C15 witness: two calls overlapped and the one issued first was answered
\* last: both are done and the exposed list is the first call's
C15_Witness ==
  /\ historyCalls[1].pc = "done" /\ historyCalls[1].ended = "list"
  /\ historyCalls[2].pc = "done" /\ historyCalls[2].ended = "list"
  /\ exposedBy = 1
  /\ history = historyCalls[1].exposed
  /\ history # historyCalls[2].exposed

\* C16: the step in which a call ends on an unreachable indexer, a non-OK
\* status, a body that is not JSON, a non-zero code or a body without data or
\* list leaves the history empty and the loading flag cleared, and the call's
\* promise resolves.
C16_FailureGivesEmptyHistory ==
  [][ \A n \in 1..MaxHistoryCalls :
        ( /\ historyCalls'[n].pc = "done"
          /\ \/ historyCalls[n].pc = "fetch"
             \/ historyCalls[n].pc = "json" /\ ~WellFormed(historyCalls[n].body[1]) )
        => /\ history' = <<>>
           /\ isLoading' = FALSE
           /\ historyCalls'[n].result = "resolved" ]_vars

\* C16 witness: a call ended in the catch after another call had exposed a list
C16_Witness ==
  \E n, m \in 1..MaxHistoryCalls :
    /\ historyCalls[m].pc = "done" /\ historyCalls[m].ended = "list"
    /\ historyCalls[n].pc = "done" /\ historyCalls[n].ended = "catch"
    /\ exposedBy = n
    /\ history = <<>> /\ ~isLoading

\* the label of the para ids that occur in the records
LabelOf(paraId) ==
  CASE paraId = 0 -> <<"Polkadot Relay">>
    [] paraId = 1000 -> <<"Asset Hub">>
    [] paraId = 2037 -> <<"Unique Network">>
    [] paraId = 9999 -> <<"Parachain ", "9", "9", "9", "9">>
    [] paraId = 3344 -> <<"Parachain ", "3", "3", "4", "4">>
    [] paraId = 1 -> <<"Parachain ", "1">>

\* C17: every row shows, for the destination id, 'Polkadot Relay' (0),
\* 'Asset Hub' (1000), 'Unique Network' (2037) or 'Parachain n'; for the
\* source it shows the same label of from_para_id when the record has one,
\* whatever from_chain says.
C17_CanonicalLabels ==
  \A i \in 1..Len(Rows) :
    /\ Rows[i].to = LabelOf(history[i].dest_para_id)
    /\ history[i].has_from_para_id => Rows[i].from = LabelOf(history[i].from_para_id)

\* C17 witness: the list shows a record with the unknown destination 9999 and
\* a record whose from_para_id 3344 overrides its from_chain 'Polkadot'
C17_Witness ==
  /\ Len(Rows) = 2
  /\ Rows[1].to = <<"Parachain ", "9", "9", "9", "9">>
  /\ Rows[2].from = <<"Parachain ", "3", "3", "4", "4">>

FractionOf(s) == SubSeq(s, DotPos(s) + 1, Len(s))
\* a display string read as an amount in units of 10^-4
ParseAtFour(s) ==
  SubSeq(s, 1, DotPos(s) - 1)
    \o SubSeq(FractionOf(s) \o <<"0", "0", "0", "0">>, 1, 4)

\* C18: every amount shown has a dot followed by at most 4 digits, and
\* formatting the shown string again, read at 4 digits, gives the same string.
C18_FourDigitsAndIdempotent ==
  \A i \in 1..Len(Rows) :
    /\ DotPos(Rows[i].amount) <= Len(Rows[i].amount)
    /\ Len(FractionOf(Rows[i].amount)) <= 4
    /\ formatAmount(ParseAtFour(Rows[i].amount), 4) = Rows[i].amount

\* C18 witness: an amount of 18 decimals with more than 4 significant fraction
\* digits is shown cut to 4
C18_Witness ==
  /\ Len(Rows) = 1
  /\ history[1].decimals = 18
  /\ Rows[1].amount = <<"1", ".", "9", "9", "9", "9">>
----------------------------------------------------------------------------
(* Properties of the balance figures *)

\* the stored minor-unit value of a figure in whole units
TrueValue(g) == DividedByPow10(BigNumber(g.raw), Decimals(g.key))
\* a figure's string read as a number, its thousands separators removed
ShownValue(g) == BigNumber(SelectSeq(g.shown, LAMBDA c : c # ","))
TenThousandth == [ip |-> <<>>, fp |-> <<0, 0, 0, 1>>]

\* C19: every balance figure stored for display (free, reserved and total of
\* a chain, and the foreign-asset DOT balance) is the raw minor-unit value
\* divided by 10^decimals and truncated to 4 fractional digits: it has at
\* most 4 fractional digits, it does not exceed the true value, and it lies
\* less than 0.0001 below it.
C19_FiguresTruncatedToFourDigits ==
  \A g \in Figures(variant, bal) :
    /\ Len(FractionOf(g.shown)) <= 4
    /\ ~Lt(TrueValue(g), ShownValue(g))
    /\ Lt(TrueValue(g), Plus(ShownValue(g), TenThousandth))
----------------------------------------------------------------------------
(* Properties of a fetchBalances run *)

\* the queries of a run other than Polkadot's
OtherQueries == {"assetHub", "unique", "dot"}
\* the place of a query in the text of fetchBalances
QueryRank(st) ==
  CASE st = "polkadot" -> 1 [] st = "assetHub" -> 2 [] st = "unique" -> 3
    [] st = "dot" -> 4 [] OTHER -> 5
\* run r makes the query q: a chain's when the run holds its handle, the
\* foreign asset's always (twoWay: with the handle of Unique)
Makes(r, q) ==
  IF q = "dot" THEN variant = "threeChain" \/ fetch[r].apis["unique"]
  ELSE fetch[r].apis[q]
\* the query q of run r has been answered, or has failed, and the run has
\* stored what the answer gave
Answered(r, q) == QueryRank(fetch[r].pc) > QueryRank(q)

\* C20: a Polkadot query that is slow or never answers does not hold back
\* the rest of the fetchBalances run: from the moment the run waits for
\* Polkadot, each other query the run makes (Asset Hub, Unique, the
\* foreign-asset balance) is eventually answered and its snapshot stored,
\* given that those endpoints do answer.
C20_SlowChainDoesNotBlock ==
  \A r \in 1..MaxFetchRuns : \A q \in OtherQueries :
    (fetch[r].pc = "polkadot" /\ Makes(r, q)) ~> Answered(r, q)
----------------------------------------------------------------------------
(* Properties of fetchBalances: failed queries *)

\* the chains run r has still to query after the chain st
ChainsAfter(r, st) ==
  {c \in Chains : fetch[r].apis[c] /\ QueryRank(c) > QueryRank(st)}
\* this step is the query st of run r throwing
FailsAt(r, st) ==
  fetch[r].pc = st /\ failures' = failures + 1 /\ fetch'[r] # fetch[r]

\* C21: when a chain's balance query fails within a fetchBalances run, the
\* failure is reported for that chain and for no other, no stored snapshot
\* changes (the failed chain keeps the one it had), and the run goes on to the
\* next chain it has to query.
C21_FailedQueryIsIsolated ==
  [][ \A r \in 1..MaxFetchRuns : \A st \in Chains :
        FailsAt(r, st) =>
          /\ fetchToasts' = fetchToasts \cup {FetchFailed(st)}
          /\ bal' = bal
          /\ ChainsAfter(r, st) # {} =>
               /\ fetch'[r].pc \in ChainsAfter(r, st)
               /\ \A c \in ChainsAfter(r, st) :
                    QueryRank(fetch'[r].pc) <= QueryRank(c) ]_vars

\* the Polkadot query failed and was reported, the Polkadot snapshot was not
\* stored, and the snapshot of Unique was
C21_Witness ==
  /\ fetchToasts = {FetchFailed("polkadot")}
  /\ ~bal["polkadot"].present
  /\ bal["unique"].present
\* C22: when the foreign-asset (DOT on Unique) query of a run fails, the
\* stored foreign-asset balance becomes zero, nothing else in the store
\* changes, no error is reported, and the run ends as a run without failure
\* does: it returns, and a manual refresh is over.
C22_ForeignAssetFailureGivesZero ==
  [][ \A r \in 1..MaxFetchRuns :
        FailsAt(r, "dot") =>
          /\ bal'["uniqueDot"] = Snapshot(<<"0">>, <<>>)
          /\ \A c \in Chains : bal'[c] = bal[c]
          /\ fetchToasts' = fetchToasts
          /\ fetch'[r] = IdleRun
          /\ fetch[r].manual => ~isRefreshing' ]_vars

\* the foreign-asset query failed for an account that holds DOT on Unique:
\* zero is stored, nothing was reported
C22_Witness ==
  /\ chain.uniqueDot # <<"0">>
  /\ bal["uniqueDot"] = Snapshot(<<"0">>, <<>>)
  /\ failures = 1
  /\ fetchToasts = {}
----------------------------------------------------------------------------
(* Properties of the polling effect *)

\* C23: at most one balance poll timer is active in every state, and none
\* while no account is selected; a run of the effect (the account was
\* selected, fetchBalances was re-created by a new connection handle) leaves
\* one timer, the previous one having been cleared.
C23_AtMostOnePollTimer ==
  /\ pollTimer <= 1
  /\ ~selectedAccount => pollTimer = 0

\* the account was selected before the Polkadot handle arrived: the run that
\* connectWallet started without handles has ended, the effect has run again
\* for the new handle and its fetchBalances waits for Polkadot; one timer
C23_Witness ==
  /\ selectedAccount
  /\ pollTimer = 1
  /\ failures = 0
  /\ bal["uniqueDot"].present
  /\ ~bal["polkadot"].present
  /\ \E r \in 1..MaxFetchRuns : fetch[r].pc = "polkadot"
----------------------------------------------------------------------------
(* Properties of attempts that follow one another *)

\* attempt a is being validated, signed, submitted or watched: it has not
\* reached a terminal status
InFlight(a) ==
  \/ att[a].pc \in {"injector", "signing"}
  \/ att[a].pc = "watching" /\ att[a].unsubCalls = 0

\* C24: at most one attempt is in flight at a time: while an attempt is being
\* validated, signed, submitted or watched the status is 'pending' and the
\* execute control is disabled.
C24_OneSubmissionInFlight ==
  /\ Cardinality({a \in 1..MaxAttempts : InFlight(a)}) <= 1
  /\ (\E a \in 1..MaxAttempts : InFlight(a)) =>
       /\ transactionStatus.status = "pending"
       /\ ~ExecuteEnabled
----------------------------------------------------------------------------
(* Properties of executeTransfer: the status an attempt ends with *)

Terminal == {"success", "error"}

\* C25: an attempt that has left idle exposes a terminal status: a pending
\* status leads to success or error once the signer has answered and the
\* watch stream has delivered an InBlock or an error result; the delivery of
\* such a result leaves a terminal status at once, and an error status gives
\* way to idle only through the reset timer of an inclusion.
C25_TerminalStatusExposed ==
  /\ (transactionStatus.status = "pending") ~> (transactionStatus.status \in Terminal)
  /\ [][ /\ (\E a \in 1..MaxAttempts : att'[a].seen # att[a].seen)
              => transactionStatus'.status \in Terminal
         /\ (transactionStatus.status = "error" /\ transactionStatus'.status = "idle")
              => \E a \in 1..MaxAttempts : att'[a].timer5 < att[a].timer5 ]_vars

\* an inclusion without ExtrinsicSuccess was delivered to an attempt and the
\* error status stands
C25_Witness ==
  /\ transactionStatus = Status("error", "FailedInBlock")
  /\ \E a \in 1..MaxAttempts : "inBlockFail" \in att[a].seen
\* C26: when the signer refuses or is unavailable (web3FromAddress or
\* signAndSend rejects), the attempt ends in the error status with the
\* signer's reason, and nothing of it is left: no watch subscription, no
\* refresh or reset timer, no balance refresh started, the amount untouched.
\* An attempt leaves signAndSend either watched or with the signer's error.
C26_SignerRefusalEndsAttempt ==
  [][ \A a \in 1..MaxAttempts :
        /\ ( /\ att[a].pc \in {"injector", "signing"}
             /\ att'[a] # att[a]
             /\ transactionStatus' = Status("error", "SignerError") )
           => /\ att'[a] = UnusedAttempt
              /\ fetch' = fetch
              /\ transferAmount' = transferAmount
        /\ ( att[a].pc = "signing" /\ att'[a].pc # "signing" )
           => \/ att'[a].pc = "watching" /\ transactionStatus' = transactionStatus
              \/ transactionStatus' = Status("error", "SignerError") ]_vars

\* the signer refused: the error status stands and no attempt is left
C26_Witness ==
  /\ transactionStatus = Status("error", "SignerError")
  /\ NoAttempt
  /\ transferAmount # <<>>
----------------------------------------------------------------------------
(* Properties of executeTransfer: the order of the checks *)

BalanceReasons == {"InsufficientBalance", "InsufficientDotOnUnique"}

\* C27: the bounds check precedes the balance check: an attempt is turned
\* away with an insufficient-balance reason only for an amount that lies
\* within [MIN_DOT_TRANSFER, MAX_DOT_TRANSFER]; an amount out of bounds is
\* never given that reason.
C27_BoundsBeforeBalance ==
  [][ \A a \in 1..MaxAttempts :
        ( /\ att[a].pc = "injector"
          /\ att'[a] # att[a]
          /\ transactionStatus'.message \in BalanceReasons )
        => WithinBounds(att[a].amount, variant) ]_vars
BoundsReasons == {"MinAmount", "MaxAmount"}

\* C28: the signer is contacted only after validation has succeeded: when an
\* attempt is turned away by the bounds check or by the balance check, no
\* call to the signer has been made for it.  (An attempt has a record from
\* its call of web3FromAddress on, so a rejection must not be the end of a
\* recorded attempt.)
C28_SignerOnlyAfterValidation ==
  [][ ( /\ transactionStatus' # transactionStatus
        /\ transactionStatus'.message \in BoundsReasons \cup BalanceReasons )
      => \A a \in 1..MaxAttempts :
           att'[a] # att[a] => att[a].pc \notin {"injector", "signing", "watching"} ]_vars
\* C29: a connection attempt or a balance query that never answers is
\* eventually given up as unreachable: initializeAPIs gets past the Polkadot
\* connection and publishes its connection errors, and a fetchBalances run
\* waiting for the Polkadot balance eventually leaves that query.
C29_SilentChainGivenUp ==
  /\ (initPc = 1) ~> (initPc > Len(ConnectOrder(variant)))
  /\ \A r \in 1..MaxFetchRuns :
       (fetch[r].pc = "polkadot") ~> (fetch[r].pc # "polkadot")
\* C30: the component itself empties the amount field only after an attempt
\* that reached success: a step of an attempt's timer that clears an entered
\* amount belongs to an attempt whose transaction was reported in a block
\* with ExtrinsicSuccess; after an in-block failure, a stream error or a
\* rejected validation the entered amount stays.
C30_AmountClearedOnlyAfterSuccess ==
  [][ \A a \in 1..MaxAttempts :
        ( /\ att'[a] # att[a]
          /\ transferAmount # <<>>
          /\ transferAmount' = <<>> )
        => "inBlockOk" \in att[a].seen ]_vars
\* C31: every payload built, on every route and for every amount, names fee
\* asset 0, lists exactly one asset and carries the weight limit Unlimited.
C31_FeeAssetAndWeightFixed ==
  \A a \in 1..MaxAttempts :
    Len(att[a].payload) = 1
      => /\ att[a].payload[1].feeAssetItem = 0
         /\ Len(att[a].payload[1].assets) = 1
         /\ att[a].payload[1].weightLimit = "Unlimited"

\* C31 witness: an attempt out of Asset Hub holds a payload for an amount with
\* a fraction, with fee asset 0 and the weight limit Unlimited.
C31_Witness ==
  \E a \in 1..MaxAttempts :
    /\ Len(att[a].payload) = 1
    /\ att[a].dir = "fromAssetHub"
    /\ att[a].amount # <<"1">>
    /\ att[a].payload[1].feeAssetItem = 0
    /\ att[a].payload[1].weightLimit = "Unlimited"
----------------------------------------------------------------------------
(* Properties of formatAmount *)

\* the quotient amount / 10^decimals, exact
ExactAmount(amount, decimals) == DividedByPow10(BigNumber(amount), decimals)

\* the reference: the whole part of the quotient, a dot, and the first
\* min(4, decimals) digits of the remainder written with `decimals` digits
ReferenceAmount(amount, decimals) ==
  LET q == ExactAmount(amount, decimals)
      remainder == q.fp \o Zeros(decimals - Len(q.fp))
  IN  (IF q.ip = <<>> THEN <<"0">> ELSE ToChars(q.ip))
        \o <<".">> \o ToChars(SubSeq(remainder, 1, Min(4, decimals)))

\* C33: for every record shown, of 10 or of 18 decimals, formatAmount gives
\* the reference string (whole part, dot, first 4 digits of the zero-padded
\* remainder), and the value it renders does not exceed the true value.
C33_FormatAmountTruncates ==
  \A i \in 1..Len(Rows) :
    history[i].decimals \in {10, 18}
      => /\ Rows[i].amount = ReferenceAmount(history[i].amount, history[i].decimals)
         /\ ~Lt(ExactAmount(history[i].amount, history[i].decimals),
                BigNumber(Rows[i].amount))

\* C33 witness: 12345678909 units of 10 decimals are shown as 1.2345, below
\* the true 1.2345678909
C33_Witness ==
  /\ Len(Rows) = 2
  /\ history[2].decimals = 10
  /\ history[2].amount = <<"1", "2", "3", "4", "5", "6", "7", "8", "9", "0", "9">>
  /\ Rows[2].amount = <<"1", ".", "2", "3", "4", "5">>
  /\ Lt(BigNumber(Rows[2].amount), ExactAmount(history[2].amount, 10))
----------------------------------------------------------------------------
(* Properties of the timers of an attempt *)

\* a timer set by attempt a fires in this step
TimerOf(a) ==
  att'[a].timer3 < att[a].timer3 \/ att'[a].timer5 < att[a].timer5

\* C34: the timers an attempt set at its in-block result do not touch a later
\* attempt: when one of them fires while another attempt is in flight, the
\* status (pending) and the entered amount stay as they are.
C34_TimersLeaveLaterAttemptAlone ==
  [][ \A a, b \in 1..MaxAttempts :
        (a # b /\ InFlight(b) /\ TimerOf(a))
          => /\ transactionStatus' = transactionStatus
             /\ transferAmount' = transferAmount ]_vars
----------------------------------------------------------------------------
(* Properties of overlapping fetchBalances runs *)

\* run r stores the answer of the query it awaits in this step: a chain's
\* query that answered, or the foreign-asset query (whose failure stores zero)
Stores(r) ==
  /\ fetch[r].pc # "idle"
  /\ fetch'[r] # fetch[r]
  /\ failures' = failures \/ fetch[r].pc = "dot"

\* C35: when fetchBalances runs overlap, a run does not store the answer of a
\* query that was issued before the query whose answer is the snapshot
\* currently stored for the same balance.
C35_NoOlderQueryReplaces ==
  [][ \A r \in DOMAIN fetch : Stores(r) => ~queryOrder.overtaken[r] ]_vars
----------------------------------------------------------------------------
(* Properties of the history loading flag *)

\* a fetchHistory call that awaits the indexer or the body of its response
HistoryInFlight(n) == historyCalls[n].pc \in {"fetch", "json"}

\* C36: the loading flag is set in every state in which a fetchHistory call
\* is in flight, so the refresh control stays disabled until the last call
\* has ended.
C36_LoadingWhileAnyFetchInFlight ==
  (\E n \in 1..MaxHistoryCalls : HistoryInFlight(n)) => isLoading
----------------------------------------------------------------------------
(* The pre-check of the execute control against executeTransfer's validation *)

\* the render's pre-check lets the entered amount through
PreCheckAccepts ==
  /\ isAmountValid(transferAmount, variant)
  /\ isBalanceSufficient(variant, transferDirection, bal, transferAmount)

\* executeTransfer, called now, would pass its bounds checks and its balance
\* check in minor units
ValidationAccepts ==
  /\ BoundsError(transferAmount, variant) = "none"
  /\ BalanceError(variant, transferDirection, bal[SourceBalanceKey(transferDirection)],
                  AmountOf(transferAmount)) = "none"

\* C37: for every entered amount and every stored snapshot of the source
\* balance, the pre-check of the execute control (isAmountValid and
\* isBalanceSufficient) lets the amount through exactly when the bounds and
\* balance checks of executeTransfer would accept it.
C37_PreCheckAgreesWithValidation ==
  transferAmount # <<>> => (PreCheckAccepts <=> ValidationAccepts)
----------------------------------------------------------------------------
(* Properties of the route from Unique to Polkadot *)

\* the foreign-asset snapshot attempt a read is absent or holds less than the amount
ShortOfDot(a) ==
  \/ ~att[a].srcBal.present
  \/ Lt(BigNumber(att[a].srcBal.free), AmountOf(att[a].amount))

\* C38: on the route from Unique to Polkadot an attempt whose foreign-asset
\* snapshot is absent or below the amount in minor units ends with an error
\* and without a payload; an attempt whose snapshot covers the amount, the
\* amount itself included (no fee is added), is not turned away for its
\* balance and builds its payload when it goes on.
C38_ChildToRelayBalanceCheck ==
  [][ \A a \in 1..MaxAttempts :
        ( /\ att[a].pc = "injector"
          /\ att[a].dir = "toPolkadot"
          /\ att'[a] # att[a] )
        => IF ShortOfDot(a)
           THEN /\ att'[a].payload = <<>>
                /\ transactionStatus'.status = "error"
           ELSE /\ transactionStatus'.message # "InsufficientDotOnUnique"
                /\ transactionStatus'.status = "pending" => Len(att'[a].payload) = 1 ]_vars

\* C38 witness: an attempt out of Unique whose foreign-asset balance equals
\* the amount exactly has passed the check and holds its payload
C38_Witness ==
  \E a \in 1..MaxAttempts :
    /\ att[a].pc = "signing"
    /\ att[a].dir = "toPolkadot"
    /\ att[a].srcBal.present
    /\ BigNumber(att[a].srcBal.free) = AmountOf(att[a].amount)
    /\ Len(att[a].payload) = 1
----------------------------------------------------------------------------
(* Properties of initializeAPIs *)

initializeAPIsDone == initPc > Len(ConnectOrder(variant))

\* the chains initializeAPIs connects to
Attempted == {ConnectOrder(variant)[i] : i \in 1..Len(ConnectOrder(variant))}

\* C39: when initializeAPIs has completed, the published connection errors
\* name exactly the chains whose connection failed, and every chain that
\* connected has its handle stored, whatever happened to the chains attempted
\* before and after it.
C39_ErrorsMatchFailedConnections ==
  initializeAPIsDone
    => /\ connectionErrors = {c \in Attempted : ~api[c]}
       /\ connectionErrors = initErrors

\* C39 witness: of the three chains the first and the third failed; both are
\* listed, and the second, attempted between them, has its handle stored
C39_Witness ==
  /\ initializeAPIsDone
  /\ variant = "threeChain"
  /\ connectionErrors = {"polkadot", "unique"}
  /\ api["assetHub"] /\ ~api["polkadot"] /\ ~api["unique"]
====
